---- MODULE Spec2Model ----
(***************************************************************************)
(* Request-lifecycle and view-state machines of the document-chat          *)
(* frontend against an asynchronous backend.  Two generations of the       *)
(* application are in the sources: App with ChatView and DocumentsView     *)
(* (fetch, no cancellation), and the earlier App with ChatPage,            *)
(* ConversationSidebar and DocumentManager (axios with AbortController).   *)
(*                                                                         *)
(* An action is one task of the browser's event loop: a user event or the  *)
(* continuation of an await, together with the re-render and the effects   *)
(* React flushes before the next task.  A handler reads the state its      *)
(* render closed over, so a handler invoked several times within one task  *)
(* (sendMessage(k), handleSend(k)) evaluates its guard k times on the same *)
(* values, and a continuation uses the values captured when its call       *)
(* started (they are kept in the request it awaits).  AbortController      *)
(* .abort() rejects the axios promise at once, so the continuation of an   *)
(* aborted request runs at the end of the task that aborts it.             *)
(***************************************************************************)
EXTENDS Integers, Sequences, FiniteSets, Bags, TLC

\* ------------------------------------------------------------- bounds
MaxPending == 2   \* the user starts a request while fewer are in flight
MaxMsgs == 2      \* a send is accepted while the message list is shorter
MaxConvs == 3     \* conversations the backend can hold
MaxBurst == 2     \* invocations of one handler within one task
MaxUploads == 1   \* uploads completed in the earlier App
MaxDocs == 2      \* documents the backend can hold
MaxQueryLen == 2  \* characters typed into a search input
MaxFiles == 2     \* files in one selection, and in a pending upload list

\* ------------------------------------------------------------- values
NoId == 0         \* null conversation or document id (falsy, as in !currentConvId)

\* the texts typed into an input: empty, blank, plain, padded
Texts == {<<>>, <<" ">>, <<"a">>, <<" ", "a", " ">>}

RemoveAt(s, i) == SubSeq(s, 1, i - 1) \o SubSeq(s, i + 1, Len(s))

RECURSIVE TrimStart(_)
TrimStart(s) ==
    IF s = <<>> THEN <<>>
    ELSE IF Head(s) = " " THEN TrimStart(Tail(s)) ELSE s

RECURSIVE TrimEnd(_)
TrimEnd(s) ==
    IF s = <<>> THEN <<>>
    ELSE IF s[Len(s)] = " " THEN TrimEnd(SubSeq(s, 1, Len(s) - 1)) ELSE s

\* a trim that keeps the text as typed
NoTrim(s) == s

\* String.prototype.trim
Trim(s) == TrimEnd(TrimStart(s))

\* the characters typed into a search input
Alphabet == {"a", "A", " "}

\* the texts of at most n characters
Typed(n) == UNION {[1..k -> Alphabet] : k \in 0..n}

\* a character as it is, for a comparison that keeps the case
KeepCase(c) == c

\* the lower-case form of a character
LowerChar(c) == IF c = "A" THEN "a" ELSE IF c = "B" THEN "b" ELSE c

\* String.prototype.toLowerCase
RECURSIVE ToLowerCase(_)
ToLowerCase(s) ==
    IF s = <<>> THEN <<>> ELSE <<LowerChar(Head(s))>> \o ToLowerCase(Tail(s))

\* an includes that finds no empty text
IncludesSome(s, q) ==
    /\ q # <<>>
    /\ \E i \in 1..(Len(s) - Len(q) + 1) : SubSeq(s, i, i + Len(q) - 1) = q

\* String.prototype.includes
Includes(s, q) == \E i \in 1..(Len(s) - Len(q) + 1) : SubSeq(s, i, i + Len(q) - 1) = q

\* the values of an optional field, a sequence of none or one: x?.f(...)
\* is undefined (falsy) when x is missing
Optional(x) == {x[i] : i \in 1..Len(x)}

\* the file types of the filter buttons of DocumentManager, and 'all'
All == <<"a", "l", "l">>
Pdf == <<"p", "d", "f">>
Csv == <<"c", "s", "v">>

\* document records: a pdf without summary, a document without file type
\* and a summary in mixed case, a csv whose summary is the empty text
DocSamples ==
    { [filename |-> <<"A", "B">>, file_type |-> <<Pdf>>, summary |-> <<>>],
      [filename |-> <<"a", " ", "B">>, file_type |-> <<>>, summary |-> << <<"a", "A">> >>],
      [filename |-> <<"b", "A", "a">>, file_type |-> <<Csv>>, summary |-> << <<>> >>] }

\* the cached array of the documents docs, in the order of the response
RECURSIVE DocList(_)
DocList(docs) ==
    IF docs = {} THEN <<>>
    ELSE LET first == CHOOSE d \in docs : \A e \in docs : d <= e
         IN  <<first>> \o DocList(docs \ {first})

\* the callback of DocumentsView's useMemo
FilteredList(docs, info, s) ==
    IF Trim(s) = <<>> THEN DocList(docs)
    ELSE LET q == ToLowerCase(s)
             Test(d) ==
                 \/ Includes(ToLowerCase(info[d].filename), q)
                 \/ \E t \in Optional(info[d].file_type) : Includes(ToLowerCase(t), q)
                 \/ \E t \in Optional(info[d].summary) : Includes(ToLowerCase(t), q)
         IN  SelectSeq(DocList(docs), Test)

\* DocumentManager's filteredDocuments
FilterDocuments(docs, info, f, term) ==
    LET Test(d) ==
            /\ f = All \/ info[d].file_type = <<f>>
            /\ Includes(ToLowerCase(info[d].filename), ToLowerCase(term))
    IN  SelectSeq(DocList(docs), Test)

\* the extensions the text of a message of UploadPage names: '... file(s)
\* were rejected. Only PDF, CSV, JSON, and TXT files are allowed.'
MessageNames(message) ==
    IF message.text = "rejected" THEN {".pdf", ".csv", ".json", ".txt"} ELSE {}

\* UploadPage's message: nothing shown
NoMessage == [type |-> "", text |-> "", count |-> 0]

\* the files of a selection: name split at the dots, MIME type as the
\* browser reports it ("" when it knows none)
Files ==
    { [name |-> <<"a", "pdf">>, type |-> "application/pdf"],
      [name |-> <<"b", "TXT">>, type |-> ""],
      [name |-> <<"report", "exe">>, type |-> "application/pdf"],
      [name |-> <<"report", "exe">>, type |-> "application/x-msdownload"],
      [name |-> <<"csv">>, type |-> "application/x-msdownload"] }

\* the non-empty selections of at most n files
Selections(n) == UNION {[1..k -> Files] : k \in 1..n}

allowedTypes == {"application/pdf", "text/csv", "application/json", "text/plain"}
allowedExtensions == {".pdf", ".csv", ".json", ".txt"}

\* String.prototype.toLowerCase on the last part of a file name
LowerName(part) ==
    IF part = "PDF" THEN "pdf" ELSE IF part = "TXT" THEN "txt"
    ELSE IF part = "EXE" THEN "exe" ELSE part

\* '.' + file.name.split('.').pop().toLowerCase()
FileExt(file) == "." \o LowerName(file.name[Len(file.name)])

\* a check that accepts on the MIME type alone
TypeOnly(file) == file.type \in allowedTypes

\* UploadPage.validateFile
validateFile(file) == file.type \in allowedTypes \/ FileExt(file) \in allowedExtensions

\* UploadView.isValid
isValid(file) == FileExt(file) \in allowedExtensions

\* k copies of x, as a bag and as a sequence
Copies(x, k) == [y \in {x} |-> k]

RECURSIVE Repeat(_, _)
Repeat(x, k) == IF k = 0 THEN <<>> ELSE <<x>> \o Repeat(x, k - 1)

\* texts of the assistant messages of ChatView.sendMessage
CvErrOccurred == <<"An error occurred. Please try again.">>
CvErrConnect == <<"Failed to connect to server. Is the backend running?">>
ReplyText == <<"response">>

\* texts of the assistant messages of ChatPage.handleSend
CpErrDefault == <<"Sorry, I encountered an error. Please try again.">>
CpErrConnect ==
    <<"Cannot connect to backend server. Make sure the backend is running on port 8001.">>
CpErrN8n == <<"Cannot connect to n8n. Make sure n8n is running.">>

\* a message built by the client (of: the stored conversation it was loaded
\* from, none for a local message)
UserMsg(text) ==
    [role |-> "user", content |-> text, id |-> "local", of |-> NoId]

AssistantMsg(text) ==
    [role |-> "assistant", content |-> text, id |-> "local", of |-> NoId]

\* GET /api/conversations/{id}: the stored messages of conversation c
ServerMessages(c) ==
    << [role |-> "assistant", content |-> ReplyText, id |-> "server", of |-> c] >>

\* ChatPage's welcome message for n uploaded files
WelcomeMsg(n) ==
    AssistantMsg(
      IF n > 0
      THEN <<"Hello! I can see you have ", ToString(n),
             IF n > 1 THEN " documents" ELSE " document",
             " uploaded. Ask me questions about ",
             IF n > 1 THEN "them" ELSE "it", "!">>
      ELSE <<"Hello! I'm your document intelligence assistant. Upload documents first, then ask me questions about them!">>)

VARIABLES
    \* the components on screen
    mounted,
    \* backend
    srvDocs, srvConvs,
    \* App (both generations keep documents and conversations)
    documents, conversations, activeConversationId, isLoading, stats,
    \* ChatView
    cvMessages, cvInput, cvIsLoading, cvIsSending, cvCurrentConvId,
    \* requests in flight: list fetches oldest first, ChatView's loads and
    \* sends as bags
    fetches, loads, chats,
    \* the earlier App
    currentConversationId, uploadedFiles,
    \* ChatPage; cpReq is the request bound to abortControllerRef.current
    cpMessages, cpInput, cpLoading, cpLoadingMessages, cpCurrentConversationId,
    cpReq,
    \* DocumentsView
    deletingId,
    \* ConversationSidebar; csReq is the request bound to its controller,
    \* csDeletes the DELETE requests in flight
    csConversations, csLoading, csEditingId, csReq, csDeletes,
    \* ... the cached titles, the edit input, the PATCH requests in flight; the
    \* titles the backend stores
    csTitles, csEditTitle, csRenames, srvTitles,
    \* DocumentManager
    dmDocuments, dmLoading, dmSelectedDocs, dmReq,
    \* ... its deleting flag and the DELETE requests in flight
    dmDeleting, dmDeletes,
    \* setters called by a continuation after its component was unmounted
    lateUpdates,
    \* DELETE requests in flight from App.deleteDocument and
    \* App.deleteConversation
    docDeletes, convDeletes,
    \* window.confirm dialogs the user accepted, alert() texts shown
    confirms, alerts,
    \* DocumentsView's generatingId, the POST generate-summary requests in
    \* flight, the timers set by handleGenerateSummary; the summary_status of
    \* the backend's documents and of the cached ones
    generatingId, genPosts, genTimers, srvSummaries, summaries,
    \* filename, file_type and summary of the documents; DocumentsView's
    \* search and the value of its filtered memo; DocumentManager's filter
    \* and searchTerm
    docInfo, search, filtered, filter, searchTerm,
    \* UploadPage's files, message and uploading; UploadView's files, result
    \* and uploading; the POST /api/upload requests in flight
    uploadPage, uploadView, uploads,
    \* SettingsView's loading, saving and message; its GET and PUT
    \* /api/settings requests in flight
    settingsView

srvVars == <<srvDocs, srvConvs>>
appVars == <<documents, conversations, activeConversationId, isLoading, stats>>
cvVars == <<cvMessages, cvInput, cvIsLoading, cvIsSending, cvCurrentConvId>>
netVars == <<fetches, loads, chats>>
lgVars == <<currentConversationId, uploadedFiles>>
cpVars == <<cpMessages, cpInput, cpLoading, cpLoadingMessages,
            cpCurrentConversationId, cpReq>>
csVars == <<csConversations, csLoading, csEditingId, csReq, csDeletes>>
renVars == <<csTitles, csEditTitle, csRenames, srvTitles>>
dmVars == <<dmDocuments, dmLoading, dmSelectedDocs, dmReq>>
dmDelVars == <<dmDeleting, dmDeletes>>
dmFltVars == <<filter, searchTerm>>
listVars == <<csVars, dmVars, dmFltVars, lateUpdates>>
delVars == <<docDeletes, convDeletes>>
uiVars == <<confirms, alerts>>
genVars == <<generatingId, genPosts, genTimers, srvSummaries>>
sumVars == <<genVars, summaries>>
fltVars == <<docInfo, search, filtered>>
upVars == <<uploadPage, uploadView, uploads>>
svVars == <<settingsView>>
\* the state added to the components' own
extVars == <<delVars, uiVars, renVars, dmDelVars, sumVars, fltVars, upVars, svVars>>
vars == <<mounted, srvVars, appVars, cvVars, netVars, lgVars, cpVars, deletingId,
          listVars, extVars>>

\* the variables of the components App does not show with ChatView
offChat == <<lgVars, cpVars, deletingId, listVars, extVars>>
\* ... the earlier App does not show with ChatPage
offPage == <<activeConversationId, isLoading, stats, cvVars, loads, chats,
             deletingId, listVars, extVars>>
\* ... App does not show with DocumentsView
offDocs == <<cvVars, loads, chats, lgVars, cpVars, listVars, convDeletes, renVars,
             dmDelVars, upVars, svVars>>
\* ... that are not list views
offLists == <<appVars, cvVars, netVars, lgVars, cpVars, deletingId, delVars,
              sumVars, fltVars, upVars, svVars>>

\* the API-key fields of the settings form, and the JSON null of a PUT body
KeyFields == {"groq_api_key", "scraper_ant_api_key"}
Null == <<"null">>

\* the value GET /api/settings gives for a stored key, and the texts of a key
\* input: empty, the masked value, typed text without and with a leading '*'
Masked == <<"*", "*", "1">>
KeyTexts == {<<>>, Masked, <<"k">>, <<"*", "k">>}

\* no PUT /api/settings of the instance is in flight
NoBody == [f \in KeyFields |-> Null]

\* SettingsView before its mount effect (useState initial values) and after
\* it: fetchSettings up to the await.  keys: groqApiKey and scraperAntApiKey;
\* body: the key fields of the PUT in flight; lost: the PUTs in flight of
\* earlier instances, whose responses update no state
SvUnmounted ==
    [loading |-> TRUE, saving |-> FALSE, message |-> "null", gets |-> 0, puts |-> 0,
     keys |-> [f \in KeyFields |-> <<>>], body |-> NoBody, lost |-> 0]
SvMounted == [SvUnmounted EXCEPT !.gets = 1]

\* ------------------------------------------------------------- requests
\* the summary_status of the documents of an empty list
NoSummaries == [d \in 1..MaxDocs |-> "pending"]

\* the summary_status values in the body of GET /api/documents
ServerSummaries == [d \in 1..MaxDocs |-> IF d \in srvDocs THEN srvSummaries[d] ELSE "pending"]

\* a list fetch in flight; kind: "all" (App.fetchData), "docs"
\* (fetchDocuments), "convs" (fetchConversations); handled: the backend has
\* answered with docs and convs; old: a later fetch of that kind has written its data
NewFetch(kind) ==
    [kind |-> kind, handled |-> FALSE, docs |-> {}, convs |-> {}, old |-> FALSE,
     sums |-> NoSummaries]

\* the fetches left when fetch i settles; applied: its data was written
SettleFetch(i, applied) ==
    RemoveAt([j \in DOMAIN fetches |->
                IF applied /\ j < i /\ fetches[j].kind = fetches[i].kind
                THEN [fetches[j] EXCEPT !.old = TRUE]
                ELSE fetches[j]], i)

\* the id the backend gives to a conversation created by POST /api/chat
FreshConvId == CHOOSE c \in 1..(MaxConvs + 1) : c \notin srvConvs

\* ChatView's loads and sends in flight
Pending == BagCardinality(loads) + BagCardinality(chats)

\* the titles of an empty conversation list
NoTitles == [c \in 1..MaxConvs |-> ""]

\* the titles in the body of GET /api/conversations
ServerTitles == [c \in 1..MaxConvs |-> IF c \in srvConvs THEN srvTitles[c] ELSE ""]

\* the request bound to an AbortController: none, or a load or send for conv
NoReq == [kind |-> "none", conv |-> NoId]
LoadReq(conv) == [kind |-> "load", conv |-> conv]
ChatReq(conv) == [kind |-> "chat", conv |-> conv]

\* ------------------------------------------------------------- initial states
InitServer ==
    /\ srvDocs = {1}
    /\ srvConvs = {1, 2}

\* the lists once the fetches of the mount effect have settled
InitLists ==
    /\ documents = {1}
    /\ conversations = {1, 2}
    /\ fetches = <<>>

\* App's remaining state once fetchData has settled
InitAppState ==
    /\ activeConversationId = NoId
    /\ isLoading = FALSE
    /\ stats = [documents |-> 1, conversations |-> 2]

\* ChatView mounted with conversationId = null
InitChatView ==
    /\ cvMessages = <<>>
    /\ cvInput = <<>>
    /\ cvIsLoading = FALSE
    /\ cvIsSending = FALSE
    /\ cvCurrentConvId = NoId
    /\ loads = EmptyBag
    /\ chats = EmptyBag

InitLegacyState ==
    /\ currentConversationId = NoId
    /\ uploadedFiles = 0

\* ChatPage mounted with conversationId = null, after its effects
InitChatPage ==
    /\ cpMessages = <<WelcomeMsg(0)>>
    /\ cpInput = <<>>
    /\ cpLoading = FALSE
    /\ cpLoadingMessages = FALSE
    /\ cpCurrentConversationId = NoId
    /\ cpReq = NoReq

InitDocumentsView == deletingId = NoId

\* the list views before their mount effect
InitListViews ==
    /\ csConversations = {}
    /\ csLoading = TRUE
    /\ csEditingId = NoId
    /\ csReq = NoReq
    /\ csDeletes = EmptyBag
    /\ dmDocuments = {}
    /\ dmLoading = TRUE
    /\ dmSelectedDocs = {}
    /\ dmReq = NoReq
    /\ lateUpdates = {}

\* no request in flight, no dialog shown
InitExt ==
    /\ docDeletes = EmptyBag
    /\ convDeletes = EmptyBag
    /\ confirms = {}
    /\ alerts = {}
    /\ csTitles = NoTitles
    /\ csEditTitle = ""
    /\ csRenames = EmptyBag
    /\ srvTitles = [c \in 1..MaxConvs |-> "old"]
    /\ dmDeleting = FALSE
    /\ dmDeletes = EmptyBag
    /\ generatingId = NoId
    /\ genPosts = EmptyBag
    /\ genTimers = EmptyBag
    /\ srvSummaries = NoSummaries
    /\ summaries = NoSummaries
    /\ search = <<>>
    /\ filter = All
    /\ searchTerm = <<>>
    /\ uploadPage = [files |-> <<>>, message |-> NoMessage, uploading |-> FALSE,
                     clearing |-> FALSE, results |-> 0]
    /\ uploadView = [files |-> <<>>, result |-> "null", uploading |-> FALSE,
                     completing |-> FALSE]
    /\ uploads = {}

InitAll ==
    /\ InitServer /\ InitLists /\ InitAppState /\ InitChatView
    /\ InitLegacyState /\ InitChatPage /\ InitDocumentsView /\ InitListViews
    /\ InitExt
    /\ settingsView = IF "SettingsView" \in mounted THEN SvMounted ELSE SvUnmounted
    /\ docInfo = [d \in 1..MaxDocs |-> CHOOSE r \in DocSamples : r.file_type = <<Pdf>>]
    /\ filtered = FilteredList(documents, docInfo, search)

\* App showing ChatView
InitApp == mounted = {"App", "ChatView"} /\ InitAll

\* ------------------------------------------------------------- App
\* ChatView's load effect, run after a render in which conversationId is id;
\* msgs is the message list the render left
CvLoadEffect(id, msgs) ==
    /\ cvCurrentConvId' = id
    /\ IF id # NoId
       THEN \* loadConversation up to the await
            /\ cvIsLoading' = TRUE
            /\ loads' = loads (+) Copies(id, 1)
            /\ cvMessages' = msgs
       ELSE /\ cvMessages' = <<>>
            /\ UNCHANGED <<cvIsLoading, loads>>

\* Sidebar conversation button: setActiveConversationId(id), then ChatView's
\* effect when the prop changed
selectConversation(id) ==
    /\ "ChatView" \in mounted
    /\ id \in conversations
    /\ Pending < MaxPending
    /\ activeConversationId' = id
    /\ IF id # activeConversationId
       THEN CvLoadEffect(id, cvMessages)
       ELSE UNCHANGED <<cvCurrentConvId, cvIsLoading, cvMessages, loads>>
    /\ UNCHANGED <<mounted, srvVars, documents, conversations, isLoading, stats,
                   cvInput, cvIsSending, fetches, chats, offChat>>

\* Sidebar New Chat button
createConversation ==
    /\ "ChatView" \in mounted
    /\ activeConversationId' = NoId
    /\ IF activeConversationId # NoId
       THEN CvLoadEffect(NoId, cvMessages)
       ELSE UNCHANGED <<cvCurrentConvId, cvIsLoading, cvMessages, loads>>
    /\ UNCHANGED <<mounted, srvVars, documents, conversations, isLoading, stats,
                   cvInput, cvIsSending, fetches, chats, offChat>>

\* the backend answers the GETs of a list fetch
ServerHandleFetch(i) ==
    /\ i \in DOMAIN fetches
    /\ ~fetches[i].handled
    /\ fetches' = [fetches EXCEPT ![i] =
                      [@ EXCEPT !.handled = TRUE,
                                !.docs = IF fetches[i].kind = "convs" THEN {} ELSE srvDocs,
                                !.sums = IF fetches[i].kind = "convs" THEN NoSummaries
                                         ELSE ServerSummaries,
                                !.convs = IF fetches[i].kind = "docs" THEN {} ELSE srvConvs]]
    /\ UNCHANGED <<mounted, srvVars, appVars, cvVars, loads, chats, offChat>>

\* "ok": both bodies report success; "docsFalse", "convsFalse": one of them does
\* not; "error": a fetch rejects or a body is not JSON
FetchOutcomes == {"ok", "docsFalse", "convsFalse", "error"}

\* fetchData after the await: both lists, the stats, then setIsLoading(false)
fetchDataSettle(i, out) ==
    /\ "App" \in mounted
    /\ i \in DOMAIN fetches
    /\ fetches[i].kind = "all"
    /\ out = "error" \/ fetches[i].handled
    /\ fetches' = SettleFetch(i, out = "ok")
    /\ documents' = IF out \in {"ok", "convsFalse"} THEN fetches[i].docs ELSE documents
    /\ conversations' = IF out \in {"ok", "docsFalse"} THEN fetches[i].convs
                        ELSE conversations
    /\ stats' = IF out = "ok"
                THEN [documents |-> Cardinality(fetches[i].docs),
                      conversations |-> Cardinality(fetches[i].convs)]
                ELSE IF out = "docsFalse"
                THEN [documents |-> 0, conversations |-> Cardinality(fetches[i].convs)]
                ELSE stats
    /\ summaries' = IF out \in {"ok", "convsFalse"} THEN fetches[i].sums ELSE summaries
    /\ isLoading' = FALSE
    /\ filtered' = FilteredList(documents', docInfo, search)
    /\ UNCHANGED <<mounted, srvVars, activeConversationId, cvVars, loads, chats,
                   lgVars, cpVars, deletingId, listVars, delVars, uiVars, renVars,
                   dmDelVars, genVars, docInfo, search, upVars, svVars>>

\* ------------------------------------------------------------- ChatView
\* the textarea's onChange (the textarea is not rendered while isLoading and is
\* disabled while isSending)
handleInput(t) ==
    /\ "ChatView" \in mounted
    /\ ~cvIsLoading
    /\ ~cvIsSending
    /\ t # cvInput
    /\ cvInput' = t
    /\ UNCHANGED <<mounted, srvVars, appVars, cvMessages, cvIsLoading, cvIsSending,
                   cvCurrentConvId, netVars, offChat>>

\* sendMessage up to the await of fetch('/api/chat'), invoked k times within
\* one task: every invocation sees the input, isSending and currentConvId of
\* the last render
sendMessage(k) ==
    /\ "ChatView" \in mounted
    /\ ~cvIsLoading
    /\ Pending + k <= MaxPending
    /\ Len(cvMessages) + k <= MaxMsgs
    /\ IF Trim(cvInput) = <<>> \/ cvIsSending
       THEN UNCHANGED vars
       ELSE /\ cvInput' = <<>>
            /\ cvIsSending' = TRUE
            /\ cvMessages' = cvMessages \o Repeat(UserMsg(Trim(cvInput)), k)
            /\ chats' = chats (+) Copies(cvCurrentConvId, k)
            /\ UNCHANGED <<mounted, srvVars, appVars, cvIsLoading, cvCurrentConvId,
                           fetches, loads, offChat>>

\* "ok": success; "false": success flag false; "error": the fetch rejects or the
\* body is not JSON
LoadOutcomes == {"ok", "false", "error"}

\* loadConversation after the await
loadConversationSettle(id, out) ==
    /\ "ChatView" \in mounted
    /\ BagIn(id, loads)
    /\ loads' = loads (-) Copies(id, 1)
    /\ cvMessages' = IF out = "ok" THEN ServerMessages(id) ELSE cvMessages
    /\ cvIsLoading' = FALSE
    /\ UNCHANGED <<mounted, srvVars, appVars, cvInput, cvIsSending, cvCurrentConvId,
                   fetches, chats, offChat>>

\* "ok": success; "false": parseable body, success flag false; "badbody": a
\* response whose body is not JSON (res.json() throws); "neterr": fetch rejects
ChatOutcomes == {"ok", "false", "badbody", "neterr"}

CvReplyText(out) ==
    IF out = "ok" THEN ReplyText
    ELSE IF out = "false" THEN CvErrOccurred
    ELSE CvErrConnect

\* a send that takes its user message back when it fails
CvAfterSendRollback(msgs, out) ==
    IF out = "ok" THEN Append(msgs, AssistantMsg(CvReplyText(out)))
    ELSE Append(SubSeq(msgs, 1, Len(msgs) - 1), AssistantMsg(CvReplyText(out)))

\* the message list after the reply or the error message of a send is appended
\* (setMessages(prev => [...prev, msg]))
CvAfterSend(msgs, out) == Append(msgs, AssistantMsg(CvReplyText(out)))

\* sendMessage after the await; conv is the currentConvId the call closed over
sendMessageSettle(conv, out) ==
    /\ "ChatView" \in mounted
    /\ BagIn(conv, chats)
    /\ chats' = chats (-) Copies(conv, 1)
    /\ LET created == out = "ok" /\ conv = NoId
           msgs == CvAfterSend(cvMessages, out)
       IN  /\ created => Cardinality(srvConvs) < MaxConvs
           /\ IF created
              THEN \* setCurrentConvId; onConversationCreated:
                   \* setActiveConversationId, fetchData; then the load effect
                   /\ srvConvs' = srvConvs \cup {FreshConvId}
                   /\ activeConversationId' = FreshConvId
                   /\ isLoading' = TRUE
                   /\ fetches' = Append(fetches, NewFetch("all"))
                   /\ IF FreshConvId # activeConversationId
                      THEN CvLoadEffect(FreshConvId, msgs)
                      ELSE /\ cvCurrentConvId' = FreshConvId
                           /\ cvMessages' = msgs
                           /\ UNCHANGED <<cvIsLoading, loads>>
              ELSE /\ cvMessages' = msgs
                   /\ UNCHANGED <<srvConvs, activeConversationId, isLoading, fetches,
                                  cvCurrentConvId, cvIsLoading, loads>>
    /\ cvIsSending' = FALSE
    /\ UNCHANGED <<mounted, srvDocs, documents, conversations, stats, cvInput,
                   offChat>>

\* the chat session: conversation selection, loads and sends
NextChat ==
    \/ \E id \in 1..MaxConvs : selectConversation(id)
    \/ createConversation
    \/ \E t \in Texts : handleInput(t)
    \/ \E k \in 1..MaxBurst : sendMessage(k)
    \/ \E id \in 1..MaxConvs, out \in LoadOutcomes : loadConversationSettle(id, out)
    \/ \E conv \in 0..MaxConvs, out \in ChatOutcomes : sendMessageSettle(conv, out)

SpecChat == InitApp /\ [][NextChat]_vars

\* ------------------------------------------------------------- Sidebar delete
\* "ok": the backend deleted the item; "notok": an error status; "error": the
\* request rejects
DeleteOutcomes == {"ok", "notok", "error"}

\* the backend carried the request out
Done(out) == out = "ok"

\* a test that takes every response for a confirmation
AnyResponse(out) == out # "error"

\* res.ok of a response
ResOk(out) == out = "ok"

\* a conversation's delete button in Sidebar (always rendered, never
\* disabled): App.deleteConversation up to the await, with no dialog; the
\* continuation keeps the activeConversationId its render closed over
deleteConversation(id) ==
    /\ "App" \in mounted
    /\ id \in conversations
    /\ BagCardinality(convDeletes) < MaxPending
    /\ convDeletes' = convDeletes (+) Copies([id |-> id, active |-> activeConversationId], 1)
    /\ UNCHANGED <<mounted, srvVars, appVars, cvVars, netVars, lgVars, cpVars,
                   deletingId, listVars, docDeletes, uiVars, renVars, dmDelVars,
                   sumVars,
                   fltVars, upVars, svVars>>

\* App.deleteConversation after the await
deleteConversationSettle(d, out) ==
    /\ "App" \in mounted
    /\ BagIn(d, convDeletes)
    /\ Done(out) => d.id \in srvConvs
    /\ convDeletes' = convDeletes (-) Copies(d, 1)
    /\ srvConvs' = IF Done(out) THEN srvConvs \ {d.id} ELSE srvConvs
    /\ IF ResOk(out)
       THEN /\ conversations' = conversations \ {d.id}
            /\ stats' = [stats EXCEPT !.conversations = @ - 1]
            /\ IF d.active = d.id
               THEN /\ activeConversationId' = NoId
                    /\ IF "ChatView" \in mounted /\ activeConversationId # NoId
                       THEN CvLoadEffect(NoId, cvMessages)
                       ELSE UNCHANGED <<cvCurrentConvId, cvIsLoading, cvMessages, loads>>
               ELSE UNCHANGED <<activeConversationId, cvCurrentConvId, cvIsLoading,
                                cvMessages, loads>>
       ELSE UNCHANGED <<conversations, stats, activeConversationId,
                        cvCurrentConvId, cvIsLoading, cvMessages, loads>>
    /\ UNCHANGED <<mounted, srvDocs, documents, isLoading, cvInput, cvIsSending,
                   fetches, chats, lgVars, cpVars, deletingId, listVars, docDeletes,
                   uiVars, renVars, dmDelVars, sumVars,
                   fltVars, upVars, svVars>>

\* the conversation list of Sidebar with ChatView on screen
NextConvs ==
    \/ \E id \in 1..MaxConvs : selectConversation(id)
    \/ createConversation
    \/ \E id \in 1..MaxConvs, out \in LoadOutcomes : loadConversationSettle(id, out)
    \/ \E id \in 1..MaxConvs : deleteConversation(id)
    \/ \E id \in 1..MaxConvs, a \in 0..MaxConvs, out \in DeleteOutcomes :
          deleteConversationSettle([id |-> id, active |-> a], out)

SpecConvs == InitApp /\ [][NextConvs]_vars

\* ------------------------------------------------------------- the earlier App
\* the earlier App showing ChatPage
InitLegacy == mounted = {"LegacyApp", "ChatPage"} /\ InitAll

\* what the catch block of handleSend receives.  "cancel": the request was
\* aborted; "neterr": no response; "503", "detail", "status": an error status
\* (503, another one with a detail in the body, another one without); "false":
\* a response whose success flag is false (handleSend throws an Error itself)
AxiosError(out) ==
    CASE out = "cancel" ->
           [name |-> "CanceledError", code |-> "ERR_CANCELED", message |-> "canceled",
            status |-> 0, detail |-> ""]
      [] out = "neterr" ->
           [name |-> "AxiosError", code |-> "ERR_NETWORK", message |-> "Network Error",
            status |-> 0, detail |-> ""]
      [] out = "503" ->
           [name |-> "AxiosError", code |-> "ERR_BAD_RESPONSE",
            message |-> "Request failed with status code 503",
            status |-> 503, detail |-> "n8n unavailable"]
      [] out = "detail" ->
           [name |-> "AxiosError", code |-> "ERR_BAD_RESPONSE",
            message |-> "Request failed with status code 500",
            status |-> 500, detail |-> "internal error"]
      [] out = "status" ->
           [name |-> "AxiosError", code |-> "ERR_BAD_RESPONSE",
            message |-> "Request failed with status code 500",
            status |-> 500, detail |-> ""]
      [] OTHER ->
           [name |-> "Error", code |-> "", message |-> "Failed to get response",
            status |-> 0, detail |-> ""]

\* a catch block that takes no error for a cancellation
NeverCancel(e) == FALSE

\* error.name === 'CanceledError' || error.name === 'AbortError'
IsCancel(e) == e.name = "CanceledError" \/ e.name = "AbortError"

\* the errorMessage of handleSend's catch block
CpErrorMessage(e) ==
    IF e.code = "ECONNREFUSED" \/ e.message = "Network Error" THEN CpErrConnect
    ELSE IF e.status = 503 THEN CpErrN8n
    ELSE IF e.detail # "" THEN <<"Error: ", e.detail>>
    ELSE IF e.message # "" THEN <<"Error: ", e.message>>
    ELSE CpErrDefault

\* the message list after handleSend's catch block
CpSendCatch(msgs, e) ==
    IF IsCancel(e) THEN msgs ELSE Append(msgs, AssistantMsg(CpErrorMessage(e)))

\* ChatPage's request state
CpState ==
    [messages |-> cpMessages, loading |-> cpLoading,
     loadingMessages |-> cpLoadingMessages, req |-> cpReq]

CpSet(s) ==
    /\ cpMessages' = s.messages
    /\ cpLoading' = s.loading
    /\ cpLoadingMessages' = s.loadingMessages
    /\ cpReq' = s.req

\* an aborted request whose continuation never runs
CpDropped(old, s) == s

\* a cancellation whose continuation leaves the sending flag as it is
CpCancelKeepsLock(old, s) ==
    IF old.kind = "load" THEN [s EXCEPT !.loadingMessages = FALSE]
    ELSE IF old.kind = "chat"
    THEN [s EXCEPT !.messages = CpSendCatch(@, AxiosError("cancel"))]
    ELSE s

\* the continuation of the aborted request old, run on state s: the catch
\* block and the finally block of loadConversation or handleSend
CpCancelled(old, s) ==
    IF old.kind = "load" THEN [s EXCEPT !.loadingMessages = FALSE]
    ELSE IF old.kind = "chat"
    THEN [s EXCEPT !.messages = CpSendCatch(@, AxiosError("cancel")),
                   !.loading = FALSE]
    ELSE s

\* ChatPage's effect on [currentConversationId, uploadedFiles.length], run on
\* state s: abort the controller, then load conv or show the welcome message
\* for n files; the aborted request's continuation runs last
CpEffect2(s, conv, n) ==
    CpCancelled(s.req,
                IF conv # NoId
                THEN [s EXCEPT !.loadingMessages = TRUE, !.req = LoadReq(conv)]
                ELSE [s EXCEPT !.messages = <<WelcomeMsg(n)>>, !.req = NoReq])

\* setCurrentConversationId(id) of the earlier App, then ChatPage's effects
\* when the prop and then its own id changed
LgSelect(id) ==
    LET cpId == IF id # currentConversationId THEN id ELSE cpCurrentConversationId
    IN  /\ currentConversationId' = id
        /\ cpCurrentConversationId' = cpId
        /\ IF cpId # cpCurrentConversationId
           THEN CpSet(CpEffect2(CpState, cpId, uploadedFiles))
           ELSE UNCHANGED <<cpMessages, cpLoading, cpLoadingMessages, cpReq>>
        /\ UNCHANGED <<mounted, srvVars, documents, conversations, fetches,
                       uploadedFiles, cpInput, offPage>>

\* Sidebar conversation entry
handleConversationSelect(id) ==
    "ChatPage" \in mounted /\ id \in conversations /\ LgSelect(id)

\* Sidebar new-conversation button
handleNewConversation == "ChatPage" \in mounted /\ LgSelect(NoId)

\* UploadPage reports one uploaded file: setUploadedFiles, fetchDocuments,
\* then ChatPage's effect on the new length
handleUploadSuccess ==
    /\ "ChatPage" \in mounted
    /\ uploadedFiles < MaxUploads
    /\ Len(fetches) < MaxPending
    /\ uploadedFiles' = uploadedFiles + 1
    /\ srvDocs' = srvDocs \cup {Cardinality(srvDocs) + 1}
    /\ fetches' = Append(fetches, NewFetch("docs"))
    /\ CpSet(CpEffect2(CpState, cpCurrentConversationId, uploadedFiles + 1))
    /\ UNCHANGED <<mounted, srvConvs, documents, conversations,
                   currentConversationId, cpInput, cpCurrentConversationId, offPage>>

\* fetchDocuments or fetchConversations after the await
lgFetchSettle(i, out) ==
    /\ "LegacyApp" \in mounted
    /\ i \in DOMAIN fetches
    /\ fetches[i].kind \in {"docs", "convs"}
    /\ out = "error" \/ fetches[i].handled
    /\ fetches' = SettleFetch(i, out = "ok")
    /\ documents' = IF out = "ok" /\ fetches[i].kind = "docs" THEN fetches[i].docs
                    ELSE documents
    /\ conversations' = IF out = "ok" /\ fetches[i].kind = "convs"
                        THEN fetches[i].convs ELSE conversations
    /\ UNCHANGED <<mounted, srvVars, lgVars, cpVars, offPage>>

\* ------------------------------------------------------------- ChatPage
\* the input's onChange (the input is disabled while loading)
cpSetInput(t) ==
    /\ "ChatPage" \in mounted
    /\ ~cpLoading
    /\ t # cpInput
    /\ cpInput' = t
    /\ UNCHANGED <<mounted, srvVars, documents, conversations, fetches, lgVars,
                   cpMessages, cpLoading, cpLoadingMessages,
                   cpCurrentConversationId, cpReq, offPage>>

\* handleSend up to the await of axios.post, invoked k times within one task.
\* Every invocation aborts the controller and binds a new one to its POST, so
\* the request in flight before and the POSTs of all invocations but the last
\* are cancelled (streaming is never set)
handleSend(k) ==
    /\ "ChatPage" \in mounted
    /\ Len(cpMessages) + k <= MaxMsgs + 1
    /\ IF Trim(cpInput) = <<>> \/ cpLoading
       THEN UNCHANGED vars
       ELSE LET chat == ChatReq(cpCurrentConversationId)
                sent == [CpState EXCEPT
                           !.messages = @ \o Repeat(UserMsg(Trim(cpInput)), k),
                           !.loading = TRUE,
                           !.req = chat]
                first == CpCancelled(cpReq, sent)
            IN  /\ cpInput' = <<>>
                /\ CpSet(IF k > 1 THEN CpCancelled(chat, first) ELSE first)
                /\ UNCHANGED <<mounted, srvVars, documents, conversations, fetches,
                               lgVars, cpCurrentConversationId, offPage>>

\* loadConversation after the await (the load in flight is always the one of
\* the current conversation: a change of the id aborts it)
cpLoadSettle(out) ==
    /\ "ChatPage" \in mounted
    /\ cpReq.kind = "load"
    /\ out = "ok" => Len(fetches) < MaxPending
    /\ cpReq' = NoReq
    /\ cpLoadingMessages' = FALSE
    /\ IF out = "ok"
       THEN \* setMessages; onConversationChange: setCurrentConversationId,
            \* fetchConversations
            /\ cpMessages' = ServerMessages(cpReq.conv)
            /\ currentConversationId' = cpReq.conv
            /\ fetches' = Append(fetches, NewFetch("convs"))
       ELSE UNCHANGED <<cpMessages, currentConversationId, fetches>>
    /\ UNCHANGED <<mounted, srvVars, documents, conversations, uploadedFiles,
                   cpInput, cpLoading, cpCurrentConversationId, offPage>>

CpChatOutcomes == {"ok", "false", "neterr", "503", "detail", "status"}

\* handleSend after the await
cpSendSettle(out) ==
    /\ "ChatPage" \in mounted
    /\ cpReq.kind = "chat"
    /\ LET created == out = "ok" /\ cpReq.conv = NoId
           replied == [CpState EXCEPT
                         !.messages =
                            IF out = "ok" THEN Append(@, AssistantMsg(ReplyText))
                            ELSE CpSendCatch(@, AxiosError(out)),
                         !.loading = FALSE,
                         !.req = NoReq]
       IN  /\ created => Cardinality(srvConvs) < MaxConvs /\ Len(fetches) < MaxPending
           /\ IF created
              THEN \* setCurrentConversationId; onConversationChange; then the
                   \* effect loads the new conversation
                   /\ srvConvs' = srvConvs \cup {FreshConvId}
                   /\ cpCurrentConversationId' = FreshConvId
                   /\ currentConversationId' = FreshConvId
                   /\ fetches' = Append(fetches, NewFetch("convs"))
                   /\ CpSet(CpEffect2(replied, FreshConvId, uploadedFiles))
              ELSE /\ CpSet(replied)
                   /\ UNCHANGED <<srvConvs, cpCurrentConversationId,
                                  currentConversationId, fetches>>
    /\ UNCHANGED <<mounted, srvDocs, documents, conversations, uploadedFiles,
                   cpInput, offPage>>

\* the chat session of the earlier App
NextPageChat ==
    \/ \E id \in 1..MaxConvs : handleConversationSelect(id)
    \/ handleNewConversation
    \/ handleUploadSuccess
    \/ \E t \in Texts : cpSetInput(t)
    \/ \E k \in 1..MaxBurst : handleSend(k)
    \/ \E out \in LoadOutcomes : cpLoadSettle(out)
    \/ \E out \in CpChatOutcomes : cpSendSettle(out)

\* ... with its list fetches
NextPage ==
    \/ NextPageChat
    \/ \E i \in 1..MaxPending : ServerHandleFetch(i)
    \/ \E i \in 1..MaxPending, out \in LoadOutcomes : lgFetchSettle(i, out)

SpecPage == InitLegacy /\ [][NextPage]_vars

\* the ChatPage session alone: its list fetches are issued and stay in flight
SpecPageChat == InitLegacy /\ [][NextPageChat]_vars

\* the chat sessions of both generations
SpecSend == (InitApp \/ InitLegacy) /\ [][NextChat \/ NextPageChat]_vars

\* the sends of both chat views, with the selection of a stored conversation
NextTalk ==
    \/ \E id \in 1..MaxConvs : selectConversation(id)
    \/ \E id \in 1..MaxConvs : handleConversationSelect(id)
    \/ \E t \in Texts : handleInput(t)
    \/ \E k \in 1..MaxBurst : sendMessage(k)
    \/ \E id \in 1..MaxConvs, out \in LoadOutcomes : loadConversationSettle(id, out)
    \/ \E conv \in 0..MaxConvs, out \in ChatOutcomes : sendMessageSettle(conv, out)
    \/ \E t \in Texts : cpSetInput(t)
    \/ \E k \in 1..MaxBurst : handleSend(k)
    \/ \E out \in LoadOutcomes : cpLoadSettle(out)
    \/ \E out \in CpChatOutcomes : cpSendSettle(out)

SpecTalk == (InitApp \/ InitLegacy) /\ [][NextTalk]_vars

\* ------------------------------------------------------------- DocumentsView
\* App showing DocumentsView
InitDocs == mounted = {"App", "DocumentsView"} /\ InitAll

\* the Refresh button (onRefresh = fetchData) up to the await
onRefresh ==
    /\ "DocumentsView" \in mounted
    /\ Len(fetches) < MaxPending
    /\ isLoading' = TRUE
    /\ fetches' = Append(fetches, NewFetch("all"))
    /\ UNCHANGED <<mounted, srvVars, documents, conversations, activeConversationId,
                   stats, deletingId, offDocs, docDeletes, uiVars, sumVars,
                   fltVars, upVars, svVars>>

\* the timer of UploadView.uploadFiles calls onUploadComplete after an upload
\* the backend stored: fetchData up to the await, setView('documents')
onUploadComplete ==
    /\ "DocumentsView" \in mounted
    /\ Len(fetches) < MaxPending
    /\ Cardinality(srvDocs) < MaxDocs
    /\ srvDocs' = srvDocs \cup {CHOOSE d \in 1..MaxDocs : d \notin srvDocs}
    /\ isLoading' = TRUE
    /\ fetches' = Append(fetches, NewFetch("all"))
    /\ UNCHANGED <<mounted, srvConvs, documents, conversations, activeConversationId,
                   stats, deletingId, offDocs, docDeletes, uiVars, sumVars,
                   fltVars, upVars, svVars>>

\* a DELETE of document id issued by a DocumentsView that is still on screen
DocDelete(id) == [id |-> id, gone |-> FALSE]

\* the requests in flight once the component that awaits them is unmounted:
\* Gone(r) is request r with nothing left of the state its continuation
\* would write to
Orphaned(reqs, Gone(_)) ==
    LET left == {Gone(r) : r \in BagToSet(reqs)}
    IN  [g \in left |->
           BagCardinality([r \in {x \in BagToSet(reqs) : Gone(x) = g} |-> reqs[r]])]

DocDeleteGone(d) == [d EXCEPT !.gone = TRUE]

\* a card's Delete button (the cards are not rendered while isLoading, the
\* button of the document being deleted is disabled), invoked k times within
\* one task: handleDelete and App.deleteDocument up to the await, with no
\* dialog; every invocation sees the deletingId of the last render
handleDelete(id, k) ==
    /\ "DocumentsView" \in mounted
    /\ ~isLoading
    /\ id \in documents
    /\ id # deletingId
    /\ BagCardinality(docDeletes) + k <= MaxPending
    /\ IF deletingId # NoId
       THEN UNCHANGED vars
       ELSE /\ deletingId' = id
            /\ docDeletes' = docDeletes (+) Copies(DocDelete(id), k)
            /\ UNCHANGED <<mounted, srvVars, appVars, fetches, offDocs, uiVars,
                           sumVars,
                   fltVars, upVars, svVars>>

\* App.deleteDocument after the await, then handleDelete's setDeletingId(null)
\* in the DocumentsView that issued the request
deleteDocumentSettle(d, out) ==
    /\ "App" \in mounted
    /\ BagIn(d, docDeletes)
    /\ Done(out) => d.id \in srvDocs /\ stats.documents > 0 - MaxDocs
    /\ docDeletes' = docDeletes (-) Copies(d, 1)
    /\ srvDocs' = IF Done(out) THEN srvDocs \ {d.id} ELSE srvDocs
    /\ IF ResOk(out)
       THEN /\ documents' = documents \ {d.id}
            /\ stats' = [stats EXCEPT !.documents = @ - 1]
       ELSE UNCHANGED <<documents, stats>>
    /\ deletingId' = IF d.gone THEN deletingId ELSE NoId
    /\ filtered' = FilteredList(documents', docInfo, search)
    /\ UNCHANGED <<mounted, srvConvs, conversations, activeConversationId, isLoading,
                   fetches, offDocs, uiVars, sumVars, docInfo, search>>

\* a navigation button of Sidebar: setView(view); DocumentsView is unmounted
\* when the view leaves 'documents' and mounted with its initial state when
\* the view returns, the requests in flight go on
onViewChange(view) ==
    /\ "App" \in mounted
    /\ view = "settings" => "DocumentsView" \in mounted
    /\ view = "documents" => "SettingsView" \in mounted
    /\ mounted' = {"App", IF view = "documents" THEN "DocumentsView" ELSE "SettingsView"}
    /\ deletingId' = NoId
    /\ docDeletes' = Orphaned(docDeletes, DocDeleteGone)
    /\ generatingId' = NoId
    /\ genPosts' = Orphaned(genPosts, DocDeleteGone)
    /\ genTimers' = Orphaned(genTimers, DocDeleteGone)
    /\ search' = <<>>
    /\ filtered' = FilteredList(documents, docInfo, <<>>)
    /\ settingsView' =
         [IF view = "settings" THEN SvMounted ELSE SvUnmounted
            EXCEPT !.lost = settingsView.lost + settingsView.puts]
    /\ UNCHANGED <<srvVars, appVars, fetches, cvVars, loads, chats, lgVars, cpVars,
                   listVars, convDeletes, renVars, dmDelVars, upVars, uiVars,
                   srvSummaries, summaries, docInfo>>

NextDocs ==
    \/ onRefresh
    \/ onUploadComplete
    \/ \E i \in 1..MaxPending : ServerHandleFetch(i)
    \/ \E i \in 1..MaxPending, out \in FetchOutcomes : fetchDataSettle(i, out)
    \/ \E id \in 1..MaxDocs, k \in 1..MaxBurst : handleDelete(id, k)
    \/ \E id \in 1..MaxDocs, gone \in BOOLEAN, out \in DeleteOutcomes :
          deleteDocumentSettle([id |-> id, gone |-> gone], out)
    \/ \E view \in {"documents", "settings"} : onViewChange(view)

SpecDocs == InitDocs /\ [][NextDocs]_vars

\* ------------------------------------------------------------- uploads
\* the earlier App with the upload modal open, or App showing UploadView
InitUpload ==
    /\ mounted \in {{"LegacyApp", "ChatPage", "UploadPage"}, {"App", "UploadView"}}
    /\ InitAll

\* the outcomes of POST /api/upload: "ok": success true, every file stored;
\* "partly": success true with errors; "false": a body without success;
\* "notok": an error status; "error": no response
UploadOutcomes == {"ok", "partly", "false", "notok", "error"}

\* the file input or a drop on UploadPage: handleFilesSelect(fileList); of
\* the two setMessage calls of one task the later one is rendered
handleFilesSelect(fileList) ==
    LET validFiles == SelectSeq(fileList, validateFile)
        invalid == Len(fileList) - Len(validFiles)
        rejected == [type |-> "error", text |-> "rejected", count |-> invalid]
    IN  /\ "UploadPage" \in mounted
        /\ Len(uploadPage.files) + Len(validFiles) <= MaxFiles
        /\ uploadPage' =
             [uploadPage EXCEPT
                !.files = @ \o validFiles,
                !.message = IF validFiles # <<>> THEN NoMessage
                            ELSE IF invalid > 0 THEN rejected ELSE @]
        /\ UNCHANGED <<mounted, srvVars, appVars, cvVars, netVars, lgVars, cpVars,
                       deletingId, listVars, delVars, uiVars, renVars, dmDelVars,
                       sumVars, fltVars, svVars, uploadView, uploads>>

\* the Upload button of UploadPage (disabled while uploading or without
\* files): handleUpload up to the await
handleUpload ==
    /\ "UploadPage" \in mounted
    /\ ~uploadPage.uploading
    /\ uploadPage.files # <<>>
    /\ uploadPage' = [uploadPage EXCEPT !.uploading = TRUE, !.message = NoMessage]
    /\ uploads' = uploads \cup {[from |-> "UploadPage", files |-> uploadPage.files]}
    /\ UNCHANGED <<mounted, srvVars, appVars, cvVars, netVars, lgVars, cpVars,
                   deletingId, listVars, delVars, uiVars, renVars, dmDelVars,
                   sumVars, fltVars, svVars, uploadView>>

\* handleUpload after the await: the message by the response, the timer
\* when every file was stored; finally setUploading(false)
handleUploadSettle(u, out) ==
    /\ "UploadPage" \in mounted
    /\ u \in uploads
    /\ u.from = "UploadPage"
    /\ uploads' = uploads \ {u}
    /\ uploadPage' =
         [uploadPage EXCEPT
            !.uploading = FALSE,
            !.clearing = @ \/ out = "ok",
            !.results = IF out = "ok" THEN Len(u.files) ELSE @,
            !.message =
               CASE out = "ok" -> [type |-> "success", text |-> "uploaded",
                                    count |-> Len(u.files)]
                 [] out = "partly" -> [type |-> "warning", text |-> "partly", count |-> 1]
                 [] out = "false" -> @
                 [] OTHER -> [type |-> "error", text |-> "failed", count |-> 0]]
    /\ UNCHANGED <<mounted, srvVars, appVars, cvVars, netVars, lgVars, cpVars,
                   deletingId, listVars, delVars, uiVars, renVars, dmDelVars,
                   sumVars, fltVars, svVars, uploadView>>

\* the timer set after a complete upload: setFiles([]), the reset of the file
\* input, the onUploadSuccess calls.  found: getElementById finds the input,
\* which is rendered only while no file is listed, so whether it is there
\* depends on setFiles([]) having been rendered already
clearFilesTimer(found) ==
    /\ "UploadPage" \in mounted
    /\ uploadPage.clearing
    /\ IF found
       THEN \* onUploadSuccess for each result: App.handleUploadSuccess adds
            \* the file, closes the upload modal and calls fetchDocuments;
            \* ChatPage's effect runs for the new number of files
            LET n == uploadPage.results
                RECURSIVE Fetched(_, _)
                Fetched(fs, i) == IF i = 0 THEN fs
                                  ELSE Fetched(Append(fs, NewFetch("docs")), i - 1)
            IN  /\ Len(fetches) + n <= MaxPending
                /\ uploadedFiles' = uploadedFiles + n
                /\ fetches' = Fetched(fetches, n)
                /\ mounted' = mounted \ {"UploadPage"}
                /\ uploadPage' = [files |-> <<>>, message |-> NoMessage,
                                  uploading |-> FALSE, clearing |-> FALSE,
                                  results |-> 0]
                /\ uploads' = {u \in uploads : u.from # "UploadPage"}
                /\ IF "ChatPage" \in mounted
                   THEN CpSet(CpEffect2(CpState, cpCurrentConversationId,
                                        uploadedFiles + n))
                   ELSE UNCHANGED <<cpMessages, cpLoading, cpLoadingMessages, cpReq>>
       ELSE \* line 136 throws: nothing after it runs, setFiles([]) is applied
            /\ uploadPage' = [uploadPage EXCEPT !.files = <<>>, !.clearing = FALSE,
                                               !.results = 0]
            /\ UNCHANGED <<mounted, fetches, uploadedFiles, cpMessages, cpLoading,
                           cpLoadingMessages, cpReq, uploads>>
    /\ UNCHANGED <<srvVars, appVars, cvVars, loads, chats, currentConversationId,
                   cpInput, cpCurrentConversationId,
                   deletingId, listVars, delVars, uiVars, renVars, dmDelVars,
                   sumVars, fltVars, svVars, uploadView>>

\* the file input or a drop on UploadView: addFiles(newFiles)
addFiles(newFiles) ==
    LET valid == SelectSeq(newFiles, isValid)
    IN  /\ "UploadView" \in mounted
        /\ Len(uploadView.files) + Len(valid) <= MaxFiles
        /\ uploadView' = [uploadView EXCEPT !.files = @ \o valid, !.result = "null"]
        /\ UNCHANGED <<mounted, srvVars, appVars, cvVars, netVars, lgVars, cpVars,
                       deletingId, listVars, delVars, uiVars, renVars, dmDelVars,
                       sumVars, fltVars, svVars, uploadPage, uploads>>

\* the Upload button of UploadView (rendered with files and no result):
\* uploadFiles up to the await
uploadFiles ==
    /\ "UploadView" \in mounted
    /\ uploadView.files # <<>>
    /\ uploadView.result = "null"
    /\ ~uploadView.uploading
    /\ uploadView' = [uploadView EXCEPT !.uploading = TRUE]
    /\ uploads' = uploads \cup {[from |-> "UploadView", files |-> uploadView.files]}
    /\ UNCHANGED <<mounted, srvVars, appVars, cvVars, netVars, lgVars, cpVars,
                   deletingId, listVars, delVars, uiVars, renVars, dmDelVars,
                   sumVars, fltVars, svVars, uploadPage>>

\* uploadFiles after the await: the result by the body, setFiles([]) on
\* success (its timer calls onComplete, the action onUploadComplete); then
\* setUploading(false)
uploadFilesSettle(u, out) ==
    /\ "UploadView" \in mounted
    /\ u \in uploads
    /\ u.from = "UploadView"
    /\ uploads' = uploads \ {u}
    /\ uploadView' =
         [uploadView EXCEPT
            !.uploading = FALSE,
            !.files = IF out \in {"ok", "partly"} THEN <<>> ELSE @,
            !.completing = @ \/ out \in {"ok", "partly"},
            !.result = CASE out \in {"ok", "partly"} -> "success"
                         [] out = "error" -> "connection"
                         [] OTHER -> "failed"]
    /\ UNCHANGED <<mounted, srvVars, appVars, cvVars, netVars, lgVars, cpVars,
                   deletingId, listVars, delVars, uiVars, renVars, dmDelVars,
                   sumVars, fltVars, svVars, uploadPage>>

\* the Clear button of UploadView
clearFiles ==
    /\ "UploadView" \in mounted
    /\ uploadView.files # <<>>
    /\ uploadView.result = "null"
    /\ ~uploadView.uploading
    /\ uploadView' = [uploadView EXCEPT !.files = <<>>]
    /\ UNCHANGED <<mounted, srvVars, appVars, cvVars, netVars, lgVars, cpVars,
                   deletingId, listVars, delVars, uiVars, renVars, dmDelVars,
                   sumVars, fltVars, svVars, uploadPage, uploads>>

\* selecting and uploading files
\* the timer set by UploadView after a successful upload: onComplete, which is
\* App.onUploadComplete: fetchData and the change to the documents view.  An
\* upload of the unmounted UploadView updates no state and is left out
onCompleteTimer ==
    /\ "UploadView" \in mounted
    /\ uploadView.completing
    /\ Len(fetches) < MaxPending
    /\ isLoading' = TRUE
    /\ fetches' = Append(fetches, NewFetch("all"))
    /\ mounted' = {"App", "DocumentsView"}
    /\ uploadView' = [files |-> <<>>, result |-> "null", uploading |-> FALSE,
                      completing |-> FALSE]
    /\ uploads' = {u \in uploads : u.from # "UploadView"}
    /\ UNCHANGED <<srvVars, documents, conversations, activeConversationId, stats,
                   cvVars, loads, chats, lgVars, cpVars, deletingId, listVars,
                   delVars, uiVars, renVars, dmDelVars, sumVars, fltVars, svVars,
                   uploadPage>>

NextUpload ==
    \/ \E fileList \in Selections(MaxFiles) : handleFilesSelect(fileList)
    \/ handleUpload
    \/ \E u \in uploads, out \in UploadOutcomes : handleUploadSettle(u, out)
    \/ \E found \in BOOLEAN : clearFilesTimer(found)
    \/ \E newFiles \in Selections(MaxFiles) : addFiles(newFiles)
    \/ uploadFiles
    \/ \E u \in uploads, out \in UploadOutcomes : uploadFilesSettle(u, out)
    \/ clearFiles
    \/ onCompleteTimer

SpecUpload == InitUpload /\ [][NextUpload]_vars

\* ------------------------------------------------------------- settings
\* the outcomes of a fetch followed by response.json(): a body with an ok
\* status, a body with an error status, a rejection (no response, or a body
\* that is not JSON)
SettingsOutcomes == {"ok", "notok", "error"}

\* the key inputs after fetchSettings: data.groq_api_key || ''; the body of
\* an error status has no key fields
FetchedKeys(keys, out) ==
    CASE out = "ok" -> [f \in KeyFields |-> Masked]
      [] out = "notok" -> [f \in KeyFields |-> <<>>]
      [] OTHER -> keys

\* text.startsWith(c)
StartsWith(text, c) == text # <<>> /\ Head(text) = c

\* the key fields of the body of PUT /api/settings
SaveBody(keys) ==
    [f \in KeyFields |-> IF StartsWith(keys[f], "*") THEN Null ELSE keys[f]]

\* typing into a key input
setKey(field, text) ==
    /\ "SettingsView" \in mounted
    /\ ~settingsView.loading
    /\ settingsView' = [settingsView EXCEPT !.keys[field] = text]
    /\ UNCHANGED <<mounted, srvVars, appVars, cvVars, netVars, lgVars, cpVars,
                   deletingId, listVars, delVars, uiVars, renVars, dmDelVars,
                   sumVars, fltVars, upVars>>

\* fetchSettings after the await
fetchSettingsSettle(out) ==
    /\ "SettingsView" \in mounted
    /\ settingsView.gets > 0
    /\ settingsView' = [settingsView EXCEPT
                          !.gets = @ - 1,
                          !.keys = FetchedKeys(@, out),
                          !.message = IF out = "error" THEN "error" ELSE @,
                          !.loading = FALSE]
    /\ UNCHANGED <<mounted, srvVars, appVars, cvVars, netVars, lgVars, cpVars,
                   deletingId, listVars, delVars, uiVars, renVars, dmDelVars,
                   sumVars, fltVars, upVars>>

\* the Save button (rendered once loading is false, disabled while saving):
\* handleSave up to the await
handleSave ==
    /\ "SettingsView" \in mounted
    /\ ~settingsView.loading /\ ~settingsView.saving
    /\ settingsView.gets + settingsView.puts + settingsView.lost < MaxPending
    /\ settingsView' = [settingsView EXCEPT
                          !.saving = TRUE, !.message = "null", !.puts = @ + 1,
                          !.body = SaveBody(settingsView.keys)]
    /\ UNCHANGED <<mounted, srvVars, appVars, cvVars, netVars, lgVars, cpVars,
                   deletingId, listVars, delVars, uiVars, renVars, dmDelVars,
                   sumVars, fltVars, upVars>>

\* handleSave after the await; a saved form is followed by fetchSettings
handleSaveSettle(out) ==
    /\ "SettingsView" \in mounted
    /\ settingsView.puts > 0
    /\ settingsView' = [settingsView EXCEPT
                          !.puts = @ - 1,
                          !.body = NoBody,
                          !.gets = IF out = "ok" THEN @ + 1 ELSE @,
                          !.message = IF out = "ok" THEN "success" ELSE "error",
                          !.saving = FALSE]
    /\ UNCHANGED <<mounted, srvVars, appVars, cvVars, netVars, lgVars, cpVars,
                   deletingId, listVars, delVars, uiVars, renVars, dmDelVars,
                   sumVars, fltVars, upVars>>

\* the response to a PUT of an instance that is no longer mounted
lostSaveSettle ==
    /\ settingsView.lost > 0
    /\ settingsView' = [settingsView EXCEPT !.lost = @ - 1]
    /\ UNCHANGED <<mounted, srvVars, appVars, cvVars, netVars, lgVars, cpVars,
                   deletingId, listVars, delVars, uiVars, renVars, dmDelVars,
                   sumVars, fltVars, upVars>>

NextSettings ==
    \/ \E out \in SettingsOutcomes : fetchSettingsSettle(out)
    \/ handleSave
    \/ \E out \in SettingsOutcomes : handleSaveSettle(out)

\* ------------------------------------------------------------- summaries
\* a POST generate-summary for document id, or the timer set after it, of a
\* DocumentsView that is still on screen
GenRequest(id) == [id |-> id, gone |-> FALSE]

\* the generate or retry button of a card (rendered when not loading, for a
\* document that is not being generated; disabled for the document of
\* generatingId), invoked k times within one task: handleGenerateSummary up
\* to the await; every invocation sees the generatingId of the last render
handleGenerateSummary(id, k) ==
    /\ "DocumentsView" \in mounted
    /\ ~isLoading
    /\ id \in documents
    /\ summaries[id] \in {"pending", "failed"}
    /\ id # generatingId
    /\ BagCardinality(genPosts) + BagCardinality(genTimers) + k <= MaxPending
    /\ IF generatingId # NoId
       THEN UNCHANGED vars
       ELSE /\ generatingId' = id
            /\ genPosts' = genPosts (+) Copies(GenRequest(id), k)
            /\ UNCHANGED <<mounted, srvVars, appVars, fetches, offDocs, docDeletes,
                           deletingId, uiVars, genTimers, srvSummaries, summaries,
                   fltVars>>

\* "ok": the backend started the job; "notok": an error status; "error": the
\* fetch rejects
PostOutcomes == {"ok", "notok", "error"}

\* handleGenerateSummary after the await: any response sets the timer, a
\* rejection releases generatingId
generateSummarySettle(p, out) ==
    /\ BagIn(p, genPosts)
    /\ Done(out) => p.id \in srvDocs
    /\ genPosts' = genPosts (-) Copies(p, 1)
    /\ srvSummaries' = IF Done(out) THEN [srvSummaries EXCEPT ![p.id] = "generating"]
                       ELSE srvSummaries
    /\ IF out = "error"
       THEN /\ generatingId' = IF p.gone THEN generatingId ELSE NoId
            /\ UNCHANGED genTimers
       ELSE /\ genTimers' = genTimers (+) Copies(p, 1)
            /\ UNCHANGED generatingId
    /\ UNCHANGED <<mounted, srvVars, appVars, fetches, offDocs, docDeletes, deletingId,
                   uiVars, summaries,
                   fltVars>>

\* continuous polling: a timer that is set again every time it fires
summaryInterval(t) ==
    /\ "App" \in mounted
    /\ BagIn(t, genTimers)
    /\ Len(fetches) < MaxPending
    /\ isLoading' = TRUE
    /\ fetches' = Append(fetches, NewFetch("all"))
    /\ generatingId' = IF t.gone THEN generatingId ELSE NoId
    /\ UNCHANGED <<mounted, srvVars, documents, conversations, activeConversationId,
                   stats, offDocs, docDeletes, deletingId, uiVars, genPosts, genTimers,
                   srvSummaries, summaries,
                   fltVars>>

\* the timer fires: onRefresh (App.fetchData up to the await), then
\* setGeneratingId(null) in the DocumentsView that set it
summaryTimer(t) ==
    /\ "App" \in mounted
    /\ BagIn(t, genTimers)
    /\ Len(fetches) < MaxPending
    /\ genTimers' = genTimers (-) Copies(t, 1)
    /\ isLoading' = TRUE
    /\ fetches' = Append(fetches, NewFetch("all"))
    /\ generatingId' = IF t.gone THEN generatingId ELSE NoId
    /\ UNCHANGED <<mounted, srvVars, documents, conversations, activeConversationId,
                   stats, offDocs, docDeletes, deletingId, uiVars, genPosts,
                   srvSummaries, summaries,
                   fltVars>>

\* the backend's summary job of document id ends
ServerSummaryJob(id, result) ==
    /\ id \in srvDocs
    /\ srvSummaries[id] = "generating"
    /\ srvSummaries' = [srvSummaries EXCEPT ![id] = result]
    /\ UNCHANGED <<mounted, srvVars, appVars, fetches, offDocs, docDeletes, deletingId,
                   uiVars, generatingId, genPosts, genTimers, summaries,
                   fltVars>>

\* DocumentsView's summaries
NextSummary ==
    \/ \E id \in 1..MaxDocs, k \in 1..MaxBurst : handleGenerateSummary(id, k)
    \/ \E id \in 1..MaxDocs, gone \in BOOLEAN, out \in PostOutcomes :
          generateSummarySettle([id |-> id, gone |-> gone], out)
    \/ \E id \in 1..MaxDocs, gone \in BOOLEAN : summaryTimer([id |-> id, gone |-> gone])
    \/ \E id \in 1..MaxDocs, result \in {"completed", "failed"} :
          ServerSummaryJob(id, result)
    \/ onRefresh
    \/ \E i \in 1..MaxPending : ServerHandleFetch(i)
    \/ \E i \in 1..MaxPending, out \in FetchOutcomes : fetchDataSettle(i, out)
    \/ \E view \in {"documents", "settings"} : onViewChange(view)

SpecSummary == InitDocs /\ [][NextSummary]_vars

\* ... while DocumentsView stays on screen
NextRefetch ==
    \/ \E id \in 1..MaxDocs, k \in 1..MaxBurst : handleGenerateSummary(id, k)
    \/ \E id \in 1..MaxDocs, out \in PostOutcomes :
          generateSummarySettle(GenRequest(id), out)
    \/ \E id \in 1..MaxDocs : summaryTimer(GenRequest(id))
    \/ \E id \in 1..MaxDocs, result \in {"completed", "failed"} :
          ServerSummaryJob(id, result)
    \/ onRefresh
    \/ \E i \in 1..MaxPending : ServerHandleFetch(i)
    \/ \E i \in 1..MaxPending, out \in FetchOutcomes : fetchDataSettle(i, out)

SpecRefetch == InitDocs /\ [][NextRefetch]_vars

\* ------------------------------------------------------------- search
\* DocumentsView showing the list of a backend that holds MaxDocs documents,
\* or DocumentManager once its load has settled
InitFilter ==
    /\ InitChatView /\ InitLegacyState /\ InitChatPage /\ InitDocumentsView /\ InitExt
    /\ settingsView = SvUnmounted
    /\ activeConversationId = NoId
    /\ isLoading = FALSE
    /\ docInfo \in [1..MaxDocs -> DocSamples]
    /\ srvConvs = {1, 2}
    /\ conversations = {1, 2}
    /\ fetches = <<>>
    /\ csConversations = {}
    /\ csLoading = TRUE
    /\ csEditingId = NoId
    /\ csReq = NoReq
    /\ csDeletes = EmptyBag
    /\ dmSelectedDocs = {}
    /\ dmReq = NoReq
    /\ lateUpdates = {}
    /\ srvDocs = 1..MaxDocs
    /\ documents = srvDocs
    /\ \/ /\ mounted = {"App", "DocumentsView"}
          /\ dmDocuments = {}
          /\ dmLoading = TRUE
       \/ /\ mounted = {"LegacyApp", "DocumentManager"}
          /\ dmDocuments = srvDocs
          /\ dmLoading = FALSE
    /\ stats = [documents |-> Cardinality(srvDocs), conversations |-> 2]
    /\ filtered = FilteredList(documents, docInfo, search)

\* the search input of DocumentsView: setSearch(e.target.value), then the
\* render, in which useMemo sees a changed dependency
setSearch(q) ==
    /\ "DocumentsView" \in mounted
    /\ search' = q
    /\ filtered' = IF q = search THEN filtered ELSE FilteredList(documents, docInfo, q)
    /\ UNCHANGED <<mounted, srvVars, appVars, fetches, offDocs, docDeletes, deletingId,
                   uiVars, sumVars, docInfo>>

\* the search input of DocumentManager
setSearchTerm(q) ==
    /\ "DocumentManager" \in mounted
    /\ ~dmLoading
    /\ searchTerm' = q
    /\ UNCHANGED <<mounted, srvVars, dmVars, dmDelVars, lateUpdates, uiVars, csVars,
                   renVars, offLists, filter>>

\* a filter button of DocumentManager
setFilter(f) ==
    /\ "DocumentManager" \in mounted
    /\ ~dmLoading
    /\ filter' = f
    /\ UNCHANGED <<mounted, srvVars, dmVars, dmDelVars, lateUpdates, uiVars, csVars,
                   renVars, offLists, searchTerm>>

\* the list DocumentManager renders
filteredDocuments == FilterDocuments(dmDocuments, docInfo, filter, searchTerm)

\* searching the documents, and deleting one while searching
NextFilter ==
    \/ \E q \in Typed(MaxQueryLen) : setSearch(q)
    \/ \E id \in 1..MaxDocs : handleDelete(id, 1)
    \/ \E id \in 1..MaxDocs, out \in DeleteOutcomes :
          deleteDocumentSettle(DocDelete(id), out)
    \/ \E q \in Typed(MaxQueryLen) : setSearchTerm(q)
    \/ \E f \in {All, Pdf, Csv} : setFilter(f)

SpecFilter == InitFilter /\ [][NextFilter]_vars

\* ------------------------------------------------------------- list views
\* the earlier App with no list view on screen
InitList == mounted = {"LegacyApp"} /\ InitAll

\* what an action of ConversationSidebar leaves alone, and one of DocumentManager
offSidebar == <<dmVars, dmDelVars, dmFltVars, offLists>>
offManager == <<csVars, renVars, dmFltVars, offLists>>

\* the continuation of a list load aborted by the unmount cleanup: the catch
\* block ignores the cancellation, the finally block calls setLoading(false)
ListCancelledAfterUnmount(req, component) ==
    IF req.kind = "load" THEN {component \o ".setLoading"} ELSE {}

\* the outcomes of an axios DELETE or PATCH: "ok": 2xx with success true;
\* "false": 2xx with success false; "notok": an error status (axios rejects);
\* "error": no response (axios rejects)
AxiosOutcomes == {"ok", "false", "notok", "error"}

\* axios rejects
Rejected(out) == out \in {"notok", "error"}

\* response.data.success of a response axios resolved with
DataSuccess(out) == out = "ok"

\* the texts of the alert() calls
AlertDeleteConversation == "Failed to delete conversation. Please try again."
AlertUpdateTitle == "Failed to update conversation title."
AlertDeleteDocument == "Failed to delete document. Please try again."

\* the titles typed into the edit input
EditTitles == {"", "new"}

\* a request of an unmounted ConversationSidebar, and of DocumentManager
CsRequestGone(r) == [r EXCEPT !.gone = TRUE, !.seen = {}, !.titles = NoTitles]
DmDeleteGone(d) == [d EXCEPT !.gone = TRUE, !.seen = {}, !.sel = {}]

\* ConversationSidebar appears: its mount effect runs loadConversations up to
\* the await
csMount ==
    /\ "ConversationSidebar" \notin mounted
    /\ mounted' = mounted \cup {"ConversationSidebar"}
    /\ csConversations' = {}
    /\ csTitles' = NoTitles
    /\ csLoading' = TRUE
    /\ csEditingId' = NoId
    /\ csEditTitle' = ""
    /\ csReq' = LoadReq(NoId)
    /\ UNCHANGED <<srvVars, srvTitles, csDeletes, csRenames, lateUpdates, uiVars,
                   offSidebar>>

\* loadConversations after the await
csLoadSettle(out) ==
    /\ "ConversationSidebar" \in mounted
    /\ csReq.kind = "load"
    /\ csReq' = NoReq
    /\ csConversations' = IF out = "ok" THEN srvConvs ELSE csConversations
    /\ csTitles' = IF out = "ok" THEN ServerTitles ELSE csTitles
    /\ csLoading' = FALSE
    /\ UNCHANGED <<mounted, srvVars, srvTitles, csEditingId, csEditTitle, csDeletes,
                   csRenames, lateUpdates, uiVars, offSidebar>>

\* ConversationSidebar disappears: the cleanup aborts the controller; the
\* aborted load's continuation runs after it.  The DELETE and PATCH requests
\* in flight are not bound to the controller and outlive the component
csUnmount ==
    /\ "ConversationSidebar" \in mounted
    /\ mounted' = mounted \ {"ConversationSidebar"}
    /\ lateUpdates' = lateUpdates \cup
                        ListCancelledAfterUnmount(csReq, "ConversationSidebar")
    /\ csReq' = NoReq
    /\ csConversations' = {}
    /\ csTitles' = NoTitles
    /\ csLoading' = TRUE
    /\ csEditingId' = NoId
    /\ csEditTitle' = ""
    /\ csDeletes' = Orphaned(csDeletes, CsRequestGone)
    /\ csRenames' = Orphaned(csRenames, CsRequestGone)
    /\ UNCHANGED <<srvVars, srvTitles, uiVars, offSidebar>>

\* the requests of ConversationSidebar that are not bound to its controller
CsInFlight == BagCardinality(csDeletes) + BagCardinality(csRenames)

\* a conversation's delete button (never disabled), with the answer to
\* window.confirm, up to the await; the continuation will filter the list this
\* render shows
csHandleDelete(id, confirmed) ==
    /\ "ConversationSidebar" \in mounted
    /\ ~csLoading
    /\ id \in csConversations
    /\ id # csEditingId
    /\ CsInFlight < MaxPending
    /\ IF confirmed
       THEN /\ csDeletes' = csDeletes (+)
                   Copies([id |-> id, seen |-> csConversations, titles |-> csTitles,
                           gone |-> FALSE], 1)
            /\ confirms' = confirms \cup {<<"conversation", id>>}
            /\ UNCHANGED <<mounted, srvVars, csConversations, csLoading, csEditingId,
                           csReq, renVars, lateUpdates, alerts, offSidebar>>
       ELSE UNCHANGED vars

\* handleDelete after the await (the parent's onNewConversation is not part of
\* the sources)
csDeleteSettle(d, out) ==
    /\ BagIn(d, csDeletes)
    /\ Done(out) => d.id \in srvConvs
    /\ csDeletes' = csDeletes (-) Copies(d, 1)
    /\ srvConvs' = IF Done(out) THEN srvConvs \ {d.id} ELSE srvConvs
    /\ csConversations' = IF DataSuccess(out) /\ ~d.gone THEN d.seen \ {d.id}
                          ELSE csConversations
    /\ csTitles' = IF DataSuccess(out) /\ ~d.gone THEN [d.titles EXCEPT ![d.id] = ""]
                   ELSE csTitles
    /\ lateUpdates' = IF DataSuccess(out) /\ d.gone
                      THEN lateUpdates \cup {"ConversationSidebar.setConversations"}
                      ELSE lateUpdates
    /\ alerts' = IF Rejected(out) THEN alerts \cup {AlertDeleteConversation} ELSE alerts
    /\ UNCHANGED <<mounted, srvDocs, csLoading, csEditingId, csReq, csEditTitle,
                   csRenames, srvTitles, confirms, offSidebar>>

\* a conversation's edit button
handleEditStart(id) ==
    /\ "ConversationSidebar" \in mounted
    /\ ~csLoading
    /\ id \in csConversations
    /\ id # csEditingId
    /\ csEditingId' = id
    /\ csEditTitle' = csTitles[id]
    /\ UNCHANGED <<mounted, srvVars, csConversations, csLoading, csReq, csDeletes,
                   csTitles, csRenames, srvTitles, lateUpdates, uiVars, offSidebar>>

\* the edit input is rendered in the row of the conversation being edited
Editing == /\ "ConversationSidebar" \in mounted
           /\ ~csLoading
           /\ csEditingId \in csConversations

\* the edit input's onChange
setEditTitle(t) ==
    /\ Editing
    /\ t # csEditTitle
    /\ csEditTitle' = t
    /\ UNCHANGED <<mounted, srvVars, csVars, csTitles, csRenames, srvTitles,
                   lateUpdates, uiVars, offSidebar>>

\* the cancel button or Escape
handleEditCancel ==
    /\ "ConversationSidebar" \in mounted
    /\ csEditingId # NoId
    /\ csEditingId' = NoId
    /\ csEditTitle' = ""
    /\ UNCHANGED <<mounted, srvVars, csConversations, csLoading, csReq, csDeletes,
                   csTitles, csRenames, srvTitles, lateUpdates, uiVars, offSidebar>>

\* the save button or Enter: handleEditSave up to the await; the continuation
\* keeps the editTitle and the list this render shows
handleEditSave ==
    /\ Editing
    /\ CsInFlight < MaxPending
    /\ csRenames' = csRenames (+)
           Copies([id |-> csEditingId, title |-> csEditTitle,
                   seen |-> csConversations, titles |-> csTitles, gone |-> FALSE], 1)
    /\ UNCHANGED <<mounted, srvVars, csVars, csTitles, csEditTitle, srvTitles,
                   lateUpdates, uiVars, offSidebar>>

\* handleEditSave after the await
csRenameSettle(r, out) ==
    /\ BagIn(r, csRenames)
    /\ Done(out) => r.id \in srvConvs
    /\ csRenames' = csRenames (-) Copies(r, 1)
    /\ srvTitles' = IF Done(out) THEN [srvTitles EXCEPT ![r.id] = r.title]
                    ELSE srvTitles
    /\ IF DataSuccess(out) /\ ~r.gone
       THEN /\ csConversations' = r.seen
            /\ csTitles' = [r.titles EXCEPT ![r.id] = r.title]
            /\ csEditingId' = NoId
            /\ csEditTitle' = ""
       ELSE UNCHANGED <<csConversations, csTitles, csEditingId, csEditTitle>>
    /\ lateUpdates' = IF DataSuccess(out) /\ r.gone
                      THEN lateUpdates \cup {"ConversationSidebar.setConversations"}
                      ELSE lateUpdates
    /\ alerts' = IF Rejected(out) THEN alerts \cup {AlertUpdateTitle} ELSE alerts
    /\ UNCHANGED <<mounted, srvVars, csLoading, csReq, csDeletes, confirms,
                   offSidebar>>

\* the Documents modal opens: DocumentManager's mount effect runs
\* loadDocuments up to the await
dmMount ==
    /\ "LegacyApp" \in mounted
    /\ "DocumentManager" \notin mounted
    /\ mounted' = mounted \cup {"DocumentManager"}
    /\ dmDocuments' = {}
    /\ dmLoading' = TRUE
    /\ dmSelectedDocs' = {}
    /\ dmDeleting' = FALSE
    /\ dmReq' = LoadReq(NoId)
    /\ filter' = All
    /\ searchTerm' = <<>>
    /\ UNCHANGED <<srvVars, dmDeletes, lateUpdates, uiVars, csVars, renVars, offLists>>

\* the Refresh button (rendered when not loading), invoked k times within one
\* task: every invocation aborts the controller and starts a load; the
\* continuation of an aborted load calls setLoading(false) last
loadDocuments(k) ==
    /\ "DocumentManager" \in mounted
    /\ ~dmLoading
    /\ dmReq' = LoadReq(NoId)
    /\ dmLoading' = (dmReq.kind # "load" /\ k = 1)
    /\ UNCHANGED <<mounted, srvVars, dmDocuments, dmSelectedDocs, dmDelVars,
                   lateUpdates, uiVars, offManager>>

\* loadDocuments after the await
dmLoadSettle(out) ==
    /\ "DocumentManager" \in mounted
    /\ dmReq.kind = "load"
    /\ dmReq' = NoReq
    /\ dmDocuments' = IF out = "ok" THEN srvDocs ELSE dmDocuments
    /\ dmLoading' = FALSE
    /\ UNCHANGED <<mounted, srvVars, dmSelectedDocs, dmDelVars, lateUpdates, uiVars,
                   offManager>>

\* the Documents modal closes; the DELETE requests in flight are not bound to
\* the controller and outlive the component
dmUnmount ==
    /\ "DocumentManager" \in mounted
    /\ mounted' = mounted \ {"DocumentManager"}
    /\ lateUpdates' = lateUpdates \cup
                        ListCancelledAfterUnmount(dmReq, "DocumentManager")
    /\ dmReq' = NoReq
    /\ dmDocuments' = {}
    /\ dmLoading' = TRUE
    /\ dmSelectedDocs' = {}
    /\ dmDeleting' = FALSE
    /\ dmDeletes' = Orphaned(dmDeletes, DmDeleteGone)
    /\ filter' = All
    /\ searchTerm' = <<>>
    /\ UNCHANGED <<srvVars, uiVars, csVars, renVars, offLists>>

toggleSelect(id) ==
    /\ "DocumentManager" \in mounted
    /\ ~dmLoading
    /\ id \in dmDocuments
    /\ dmSelectedDocs' = IF id \in dmSelectedDocs THEN dmSelectedDocs \ {id}
                         ELSE dmSelectedDocs \cup {id}
    /\ UNCHANGED <<mounted, srvVars, dmDocuments, dmLoading, dmReq, dmDelVars,
                   lateUpdates, uiVars, offManager>>

\* a card's Delete button (disabled while deleting), with the answer to
\* window.confirm, invoked k times within one task: handleDelete up to the
\* await; the continuation will filter the lists this render shows
dmHandleDelete(id, confirmed, k) ==
    /\ "DocumentManager" \in mounted
    /\ ~dmLoading
    /\ ~dmDeleting
    /\ id \in dmDocuments
    /\ BagCardinality(dmDeletes) + k <= MaxPending
    /\ IF confirmed
       THEN /\ dmDeleting' = TRUE
            /\ dmDeletes' = dmDeletes (+)
                   Copies([id |-> id, seen |-> dmDocuments, sel |-> dmSelectedDocs,
                           gone |-> FALSE], k)
            /\ confirms' = confirms \cup {<<"document", id>>}
            /\ UNCHANGED <<mounted, srvVars, dmVars, lateUpdates, alerts, offManager>>
       ELSE UNCHANGED vars

\* handleDelete after the await
dmDeleteSettle(d, out) ==
    /\ BagIn(d, dmDeletes)
    /\ Done(out) => d.id \in srvDocs
    /\ dmDeletes' = dmDeletes (-) Copies(d, 1)
    /\ srvDocs' = IF Done(out) THEN srvDocs \ {d.id} ELSE srvDocs
    /\ IF DataSuccess(out) /\ ~d.gone
       THEN /\ dmDocuments' = d.seen \ {d.id}
            /\ dmSelectedDocs' = d.sel \ {d.id}
       ELSE UNCHANGED <<dmDocuments, dmSelectedDocs>>
    /\ dmDeleting' = IF d.gone THEN dmDeleting ELSE FALSE
    /\ lateUpdates' = IF d.gone THEN lateUpdates \cup {"DocumentManager.setDeleting"}
                      ELSE lateUpdates
    /\ alerts' = IF Rejected(out) THEN alerts \cup {AlertDeleteDocument} ELSE alerts
    /\ UNCHANGED <<mounted, srvConvs, dmLoading, dmReq, confirms, offManager>>

\* ConversationSidebar's title edits
NextRename ==
    \/ csMount
    \/ csUnmount
    \/ \E out \in LoadOutcomes : csLoadSettle(out)
    \/ \E id \in 1..MaxConvs : handleEditStart(id)
    \/ \E t \in EditTitles : setEditTitle(t)
    \/ handleEditCancel
    \/ handleEditSave
    \/ \E r \in BagToSet(csRenames), out \in AxiosOutcomes : csRenameSettle(r, out)

SpecRename == InitList /\ [][NextRename]_vars

\* DocumentManager
NextManager ==
    \/ dmMount
    \/ dmUnmount
    \/ \E k \in 1..MaxBurst : loadDocuments(k)
    \/ \E out \in LoadOutcomes : dmLoadSettle(out)
    \/ \E id \in 1..MaxDocs : toggleSelect(id)
    \/ \E id \in 1..MaxDocs, confirmed \in BOOLEAN, k \in 1..MaxBurst :
          dmHandleDelete(id, confirmed, k)
    \/ \E d \in BagToSet(dmDeletes), out \in AxiosOutcomes : dmDeleteSettle(d, out)

SpecManager == InitList /\ [][NextManager]_vars

\* ------------------------------------------------------------- deletes
\* the delete paths: the cards of DocumentsView and the conversation buttons
\* of Sidebar under App, the cards of DocumentManager
NextDelete ==
    \/ \E id \in 1..MaxDocs, k \in 1..MaxBurst : handleDelete(id, k)
    \/ \E id \in 1..MaxDocs, gone \in BOOLEAN, out \in DeleteOutcomes :
          deleteDocumentSettle([id |-> id, gone |-> gone], out)
    \/ \E view \in {"documents", "settings"} : onViewChange(view)
    \/ NextConvs
    \/ NextManager

SpecDelete == (InitDocs \/ InitApp \/ InitList) /\ [][NextDelete]_vars

\* the list views without their edits
NextList ==
    \/ csMount
    \/ csUnmount
    \/ \E out \in LoadOutcomes : csLoadSettle(out)
    \/ \E id \in 1..MaxConvs, confirmed \in BOOLEAN : csHandleDelete(id, confirmed)
    \/ \E d \in BagToSet(csDeletes), out \in AxiosOutcomes : csDeleteSettle(d, out)
    \/ \E id \in 1..MaxConvs : handleEditStart(id)
    \/ handleEditCancel
    \/ dmMount
    \/ dmUnmount
    \/ \E k \in 1..MaxBurst : loadDocuments(k)
    \/ \E out \in LoadOutcomes : dmLoadSettle(out)
    \/ \E id \in 1..MaxDocs : toggleSelect(id)

SpecList == InitList /\ [][NextList]_vars

\* ------------------------------------------------------------- properties
IsBlank(t) == \A i \in DOMAIN t : t[i] = " "

IsPrefix(s, t) == Len(s) <= Len(t) /\ SubSeq(t, 1, Len(s)) = s

\* the error texts handleSend can append
CpErrorTexts == {CpErrorMessage(AxiosError(out)) : out \in CpChatOutcomes \cup {"cancel"}}

\* the assistant error messages in ChatPage's list
CpErrorCount(msgs) ==
    Cardinality({i \in DOMAIN msgs :
                   /\ msgs[i].role = "assistant"
                   /\ msgs[i].id = "local"
                   /\ msgs[i].content \in CpErrorTexts})

\* C1: only the response of the load of the latest selected conversation is
\* ever applied to the message list; the response of a load started for an
\* earlier selection never writes it.
C1_OnlyLatestLoadApplied ==
    [][\A id \in 1..MaxConvs :
         (/\ BagIn(id, loads)
          /\ loads' = loads (-) Copies(id, 1)
          /\ cvMessages' # cvMessages)
         => id = activeConversationId]_vars

\* C2: starting a new fetch cancels the previous one of its scope, so at most
\* one list fetch that was not cancelled is in flight.
C2_OneFetchInFlight == Len(fetches) <= 1

\* C3: when two fetchData calls both resolve, the data of the later call stays:
\* a fetch that settles after a later one has written its data changes neither
\* the lists nor the stats.
C3_LaterFetchWins ==
    [][\A i \in 1..MaxPending :
         (fetchDataSettle(i, "ok") /\ fetches[i].old)
         => UNCHANGED <<documents, conversations, stats>>]_vars

\* C4: the load of a list view that was unmounted while it was pending calls
\* no setter of the unmounted component, the loading flag included.
C4_NoUpdateAfterUnmount ==
    /\ "ConversationSidebar.setLoading" \notin lateUpdates
    /\ "DocumentManager.setLoading" \notin lateUpdates

\* C5: at most one POST /api/chat is in flight per chat session.
C5_OneSendInFlight == BagCardinality(chats) <= 1

\* C6: a send whose text is empty or only whitespace changes neither the
\* message list nor the sending flag and issues no chat request.
C6_BlankSendIsNoOp ==
    [][/\ \A k \in 1..MaxBurst :
            (IsBlank(cvInput) /\ sendMessage(k))
            => UNCHANGED <<cvMessages, cvIsSending, chats>>
       /\ \A k \in 1..MaxBurst :
            (IsBlank(cpInput) /\ handleSend(k))
            => UNCHANGED <<cpMessages, cpLoading, cpReq>>]_vars

\* a blank, non-empty text is in the input of a chat view that accepts sends
C6_Witness ==
    \/ /\ "ChatView" \in mounted
       /\ cvInput = <<" ">> /\ ~cvIsSending /\ ~cvIsLoading
       /\ Len(cvMessages) < MaxMsgs
    \/ /\ "ChatPage" \in mounted
       /\ cpInput = <<" ">> /\ ~cpLoading
       /\ Len(cpMessages) <= MaxMsgs

\* C7: when the first send without conversation id succeeds, the session and
\* the App adopt the id the backend returned and the list is fetched again, and
\* no other send without id of that session is left to create a second
\* conversation.
C7_OneConversationPerSession ==
    [][srvConvs' # srvConvs =>
         /\ cvCurrentConvId' \in srvConvs' \ srvConvs
         /\ activeConversationId' = cvCurrentConvId'
         /\ Len(fetches') = Len(fetches) + 1
         /\ ~BagIn(NoId, chats')]_vars

\* C8: an accepted send appends its user message in the step that issues the
\* request; the step in which a send settles keeps every message of the list
\* and appends exactly one assistant message, an error message when the send
\* failed.
C8_UserMessageKept ==
    [][/\ chats' # chats =>
          /\ \A k \in 1..MaxBurst :
               sendMessage(k)
               => cvMessages' = cvMessages \o Repeat(UserMsg(Trim(cvInput)), k)
          /\ \A conv \in BagToSet(chats), out \in ChatOutcomes :
               sendMessageSettle(conv, out)
               => /\ Len(cvMessages') = Len(cvMessages) + 1
                  /\ IsPrefix(cvMessages, cvMessages')
                  /\ cvMessages'[Len(cvMessages')].role = "assistant"
                  /\ out # "ok" =>
                       cvMessages'[Len(cvMessages')].content \in {CvErrOccurred, CvErrConnect}
       /\ cpReq' # cpReq =>
          /\ \A k \in 1..MaxBurst :
               handleSend(k)
               => cpMessages' = cpMessages \o Repeat(UserMsg(Trim(cpInput)), k)
          /\ \A out \in CpChatOutcomes :
               cpSendSettle(out)
               => /\ Len(cpMessages') = Len(cpMessages) + 1
                  /\ IsPrefix(cpMessages, cpMessages')
                  /\ cpMessages'[Len(cpMessages')].role = "assistant"
                  /\ out # "ok" => CpErrorCount(cpMessages') = CpErrorCount(cpMessages) + 1
      ]_vars

\* a failed send has settled: the user message is followed by the error message
C8_Witness ==
    \/ /\ Len(cvMessages) = 2
       /\ cvMessages[1] = UserMsg(<<"a">>)
       /\ cvMessages[2] = AssistantMsg(CvErrConnect)
       /\ chats = EmptyBag
    \/ /\ Len(cpMessages) = 3
       /\ cpMessages[2] = UserMsg(<<"a">>)
       /\ cpMessages[3] = AssistantMsg(CpErrConnect)
       /\ cpReq = NoReq

\* C9: the connectivity text is appended if and only if no response was
\* received; a failure the server reported, with or without a parseable body,
\* yields another text.
C9_ConnectTextIffNoResponse ==
    [][\A conv \in 0..MaxConvs, out \in ChatOutcomes :
         sendMessageSettle(conv, out) =>
           (cvMessages'[Len(cvMessages')].content = CvErrConnect <=> out = "neterr")]_vars

\* C10: a cancelled load or send shows no error: the number of assistant error
\* messages grows only in a step in which a send that was not cancelled settles
\* with a failure.
C10_CancelledIsSilent ==
    [][CpErrorCount(cpMessages') > CpErrorCount(cpMessages)
       => \E out \in CpChatOutcomes \ {"ok"} : cpSendSettle(out)]_vars

\* a send was cancelled by a second invocation of handleSend (its continuation
\* cleared the loading flag while the second POST is in flight), or a load was
\* cancelled by the load that replaced it, and no error message is shown
C10_Witness ==
    /\ \/ cpReq.kind = "chat" /\ ~cpLoading
       \/ cpReq.kind = "load" /\ ~cpLoadingMessages
    /\ CpErrorCount(cpMessages) = 0

\* the requests of a bag that are for item id
InFlightFor(reqs, id) ==
    BagCardinality([r \in {x \in BagToSet(reqs) : x.id = id} |-> reqs[r]])

\* the DELETE requests in flight for document id, and for conversation id
DocumentDeletes(id) == InFlightFor(docDeletes, id) + InFlightFor(dmDeletes, id)
ConversationDeletes(id) == InFlightFor(convDeletes, id) + InFlightFor(csDeletes, id)

DeleteAlerts == {AlertDeleteConversation, AlertDeleteDocument}

\* C11: an item leaves a cached list (App's documents and conversations,
\* DocumentManager's documents) otherwise than by a list fetch only in a step
\* in which the backend no longer holds it, and a step of a delete path in which the backend deletes nothing
\* (the DELETE is issued, stays in flight, or fails) leaves the cached list
\* as it was
C11_RemovedOnlyWhenConfirmed ==
    [][ /\ \A id \in 1..MaxDocs :
             (id \in documents /\ id \notin documents' /\ fetches' = fetches)
               => id \notin srvDocs'
        /\ \A id \in 1..MaxConvs :
             (id \in conversations /\ id \notin conversations' /\ fetches' = fetches)
               => id \notin srvConvs'
        /\ \A id \in 1..MaxDocs :
             (id \in dmDocuments /\ id \notin dmDocuments' /\ "DocumentManager" \in mounted')
               => id \notin srvDocs'
        /\ (docDeletes' # docDeletes /\ srvDocs' = srvDocs) => documents' = documents
        /\ (convDeletes' # convDeletes /\ srvConvs' = srvConvs)
             => conversations' = conversations
        /\ (dmDeletes' # dmDeletes /\ srvDocs' = srvDocs /\ mounted' = mounted)
             => dmDocuments' = dmDocuments
      ]_vars

\* a DELETE of DocumentManager failed and the document is still in its list
C11_Witness ==
    /\ "DocumentManager" \in mounted
    /\ AlertDeleteDocument \in alerts
    /\ dmDeletes = EmptyBag
    /\ 1 \in dmDocuments
    /\ 1 \in srvDocs

\* C12: a DELETE that fails (an error status or no response) is followed by a
\* notification to the user, on the delete paths of App and of
\* DocumentManager, and no request is issued in its place
C12_FailedDeleteNotified ==
    [][ \A out \in {"notok", "error"} :
          /\ \A id \in 1..MaxDocs, gone \in BOOLEAN :
               deleteDocumentSettle([id |-> id, gone |-> gone], out)
                 => /\ alerts' \cap DeleteAlerts # {}
                    /\ BagCardinality(docDeletes') < BagCardinality(docDeletes)
          /\ \A id \in 1..MaxConvs, a \in 0..MaxConvs :
               deleteConversationSettle([id |-> id, active |-> a], out)
                 => /\ alerts' \cap DeleteAlerts # {}
                    /\ BagCardinality(convDeletes') < BagCardinality(convDeletes)
          /\ \A d \in BagToSet(dmDeletes) :
               dmDeleteSettle(d, out)
                 => /\ alerts' \cap DeleteAlerts # {}
                    /\ BagCardinality(dmDeletes') < BagCardinality(dmDeletes)
      ]_vars

\* C13: when the DELETE of conversation id succeeds, id leaves the cached
\* conversations and the active conversation becomes none if it is id at that
\* moment, and stays what it is otherwise
C13_SelectionClearedIffSelected ==
    [][ \A id \in 1..MaxConvs, a \in 0..MaxConvs :
          deleteConversationSettle([id |-> id, active |-> a], "ok")
            => /\ id \notin conversations'
               /\ activeConversationId' =
                    IF activeConversationId = id THEN NoId ELSE activeConversationId
      ]_vars

\* C14: for every document and every conversation at most one DELETE request
\* is in flight
C14_OneDeletePerId ==
    /\ \A id \in 1..MaxDocs : DocumentDeletes(id) <= 1
    /\ \A id \in 1..MaxConvs : ConversationDeletes(id) <= 1

\* C15: every DELETE request in flight was preceded by a confirmation dialog
\* for that item which the user accepted
C15_DeleteConfirmedFirst ==
    /\ \A id \in 1..MaxDocs : DocumentDeletes(id) > 0 => <<"document", id>> \in confirms
    /\ \A id \in 1..MaxConvs :
         ConversationDeletes(id) > 0 => <<"conversation", id>> \in confirms

\* C16: a rename leaves the cached titles alone while its PATCH is in flight;
\* when the backend confirms it the cached title of that conversation
\* becomes the title that was sent; when it fails (no response, an error
\* status, or success false) the cached titles stay as they were and an
\* error is shown to the user
C16_RenameAfterConfirmation ==
    [][ /\ handleEditSave => csTitles' = csTitles
        /\ \A r \in BagToSet(csRenames), out \in AxiosOutcomes :
             csRenameSettle(r, out)
               => IF out = "ok"
                  THEN ~r.gone => csTitles'[r.id] = r.title
                  ELSE csTitles' = csTitles /\ AlertUpdateTitle \in alerts'
      ]_vars

\* the generateSummary triggers of document id that are outstanding: POSTs in
\* flight and timers not yet fired
SummaryTriggers(id) == InFlightFor(genPosts, id) + InFlightFor(genTimers, id)

\* C17: while a generateSummary trigger of a document is outstanding, a second
\* call for the same document issues no POST: no document ever has two
\* triggers outstanding
C17_OneTriggerPerId == \A id \in 1..MaxDocs : SummaryTriggers(id) <= 1


\* C18: a POST generate-summary that returns sets exactly one timer and starts
\* no fetch, a POST that fails sets none; a timer that fires starts exactly
\* one fetch of the full list and is gone; no other step but the user's
\* refresh starts a fetch; the trigger, the POST's return and the timer leave
\* the cached summary_status alone, which changes only when a fetch returns
C18_SingleDeferredRefetch ==
    [][ /\ \A id \in 1..MaxDocs, k \in 1..MaxBurst :
             handleGenerateSummary(id, k) =>
                 summaries' = summaries /\ fetches' = fetches /\ genTimers' = genTimers
        /\ \A p \in BagToSet(genPosts), out \in PostOutcomes :
             generateSummarySettle(p, out) =>
                 /\ summaries' = summaries
                 /\ fetches' = fetches
                 /\ genTimers' = IF out = "error" THEN genTimers
                                 ELSE genTimers (+) Copies(p, 1)
        /\ \A t \in BagToSet(genTimers) :
             summaryTimer(t) =>
                 /\ summaries' = summaries
                 /\ fetches' = Append(fetches, NewFetch("all"))
                 /\ BagCardinality(genTimers') = BagCardinality(genTimers) - 1
        /\ Len(fetches') > Len(fetches) =>
             onRefresh \/ \E t \in BagToSet(genTimers) : summaryTimer(t)
        /\ BagCardinality(genTimers') > BagCardinality(genTimers) =>
             BagCardinality(genPosts') < BagCardinality(genPosts)
        /\ summaries' # summaries =>
             \E i \in 1..MaxPending, out \in FetchOutcomes : fetchDataSettle(i, out)
      ]_vars

\* the job of document 1 failed after the single re-fetch had shown it as
\* generating: nothing is outstanding and the cached status stays stale
C18_Witness ==
    /\ 1 \in documents
    /\ summaries[1] = "generating"
    /\ srvSummaries[1] = "failed"
    /\ genPosts = EmptyBag
    /\ genTimers = EmptyBag
    /\ fetches = <<>>


\* two characters that differ at most in case
SameLetter(c, d) == c = d \/ {c, d} \in {{"a", "A"}, {"b", "B"}}

\* text contains q as a substring when case is ignored
ContainsIgnoringCase(text, q) ==
    \E off \in 0..(Len(text) - Len(q)) :
        \A k \in 1..Len(q) : SameLetter(text[off + k], q[k])

\* filename, file_type or summary of document d contains q
DocMatches(d, q) ==
    \/ ContainsIgnoringCase(docInfo[d].filename, q)
    \/ \E t \in Optional(docInfo[d].file_type) : ContainsIgnoringCase(t, q)
    \/ \E t \in Optional(docInfo[d].summary) : ContainsIgnoringCase(t, q)

\* list holds the members of cache that satisfy Keep(_), each once, in the
\* order of cache
IsSubSequence(list, cache, Keep(_)) ==
    /\ \A k \in 1..Len(list) : \E j \in 1..Len(cache) : cache[j] = list[k] /\ Keep(list[k])
    /\ \A j \in 1..Len(cache) : Keep(cache[j]) => \E k \in 1..Len(list) : list[k] = cache[j]
    /\ \A k, l \in 1..Len(list) :
          k < l => \E i, j \in 1..Len(cache) : i < j /\ cache[i] = list[k] /\ cache[j] = list[l]

\* C19: in every state of DocumentsView the filtered list is the whole cache
\* when the query is empty or blank, and otherwise the sub-sequence, in cache
\* order, of the documents whose filename, file_type or summary contains
\* the query ignoring case: no change of the cache or of the query leaves an
\* older projection behind
C19_FilteredIsProjection ==
    "DocumentsView" \in mounted =>
        IF IsBlank(search)
        THEN filtered = DocList(documents)
        ELSE LET Keep(d) == DocMatches(d, search)
             IN  IsSubSequence(filtered, DocList(documents), Keep)

\* a query in upper case has found the document whose summary holds it in
\* mixed case, and left out another document of the cache
C19_Witness ==
    /\ "DocumentsView" \in mounted
    /\ search = <<"A", "A">>
    /\ Len(filtered) = 1
    /\ Cardinality(documents) = 2
    /\ docInfo[filtered[1]].summary = << <<"a", "A">> >>
    /\ ~ContainsIgnoringCase(docInfo[filtered[1]].filename, search)


\* no document of docs has q in its filename, file_type or summary
NoMatch(docs, q) == \A d \in docs : ~DocMatches(d, q)

\* C20 as stated: a search leaves the cache as it is; a query that matches no
\* filename, file_type or summary gives the empty list; the empty query
\* gives the whole cache, in DocumentsView and in DocumentManager
C20_FilterLeavesCache ==
    [][ /\ \A q \in Typed(MaxQueryLen) :
             setSearch(q) =>
                 /\ documents' = documents /\ docInfo' = docInfo
                 /\ NoMatch(documents, q) => filtered' = <<>>
                 /\ q = <<>> => filtered' = DocList(documents)
        /\ \A q \in Typed(MaxQueryLen) :
             setSearchTerm(q) =>
                 /\ dmDocuments' = dmDocuments /\ docInfo' = docInfo
                 /\ NoMatch(dmDocuments, q) => filteredDocuments' = <<>>
                 /\ q = <<>> => filteredDocuments' = DocList(dmDocuments)
      ]_vars

\* C20, amended: a search or a filter button leaves the cache as it is; a
\* query that is not blank and matches no filename, file_type or summary
\* gives the empty list (DocumentManager: any query that matches none); the
\* empty query gives the whole cache (DocumentManager: under the filter
\* 'all', else the documents of the chosen file type)
C20_FilterLeavesCacheAmended ==
    [][ /\ \A q \in Typed(MaxQueryLen) :
             setSearch(q) =>
                 /\ documents' = documents /\ docInfo' = docInfo
                 /\ (~IsBlank(q) /\ NoMatch(documents, q)) => filtered' = <<>>
                 /\ q = <<>> => filtered' = DocList(documents)
        /\ \A q \in Typed(MaxQueryLen) :
             setSearchTerm(q) =>
                 /\ dmDocuments' = dmDocuments /\ docInfo' = docInfo
                 /\ NoMatch(dmDocuments, q) => filteredDocuments' = <<>>
                 /\ (q = <<>> /\ filter = All) => filteredDocuments' = DocList(dmDocuments)
                 /\ (q = <<>> /\ filter # All) =>
                       LET Keep(d) == docInfo[d].file_type = <<filter>>
                       IN  IsSubSequence(filteredDocuments', DocList(dmDocuments), Keep)
        /\ \A f \in {All, Pdf, Csv} :
             setFilter(f) => dmDocuments' = dmDocuments /\ docInfo' = docInfo
      ]_vars

\* DocumentsView shows no document for a query that none of the two cached
\* documents contains
C20_Witness ==
    /\ "DocumentsView" \in mounted
    /\ ~IsBlank(search)
    /\ NoMatch(documents, search)
    /\ filtered = <<>>
    /\ Cardinality(documents) = 2


\* the name of file ends in a dot and one of the allowed extensions
EndsInAllowed(file) ==
    /\ Len(file.name) >= 2
    /\ LowerName(file.name[Len(file.name)]) \in {"pdf", "csv", "json", "txt"}

\* file passes both checks
PassesBoth(file) ==
    /\ EndsInAllowed(file)
    /\ file.type \in {"application/pdf", "text/csv", "application/json", "text/plain"}

\* the files of the pending upload lists and of the upload requests in flight
PendingOrSent ==
    {uploadPage.files[i] : i \in 1..Len(uploadPage.files)}
    \cup {uploadView.files[i] : i \in 1..Len(uploadView.files)}
    \cup UNION {{u.files[i] : i \in 1..Len(u.files)} : u \in uploads}

\* C21: every file of a pending upload list or of a POST /api/upload has an
\* allowed extension and an allowed MIME type
C21_OnlyValidFilesSent == \A file \in PendingOrSent : PassesBoth(file)

\* a selection holds a file whose extension is not allowed
HasDisallowed(fileList) == \E i \in 1..Len(fileList) : ~EndsInAllowed(fileList[i])

\* C22: the step that processes a selection with a file of a disallowed
\* extension issues no request and leaves an error on screen that names
\* the extension, also when the selection holds valid files
C22_InvalidSelectionReported ==
    [][ /\ \A fileList \in Selections(MaxFiles) :
             (HasDisallowed(fileList) /\ handleFilesSelect(fileList)) =>
                 /\ uploads' = uploads
                 /\ uploadPage'.message.type = "error"
                 /\ \A i \in 1..Len(fileList) :
                       ~EndsInAllowed(fileList[i]) =>
                           FileExt(fileList[i]) \in MessageNames(uploadPage'.message)
        /\ \A newFiles \in Selections(MaxFiles) :
             (HasDisallowed(newFiles) /\ addFiles(newFiles)) =>
                 uploads' = uploads /\ uploadView'.result \in {"failed", "connection"}
      ]_vars


\* msgs holds a stored message of a conversation other than id
ShowsOther(msgs, id) == \E i \in 1..Len(msgs) : msgs[i].of \notin {NoId, id}

\* C23: when the load of the selected conversation fails, the list shown
\* afterwards holds no message of the conversation shown before
C23_FailedLoadClearsMessages ==
    [][ /\ \A id \in 1..MaxConvs, out \in LoadOutcomes \ {"ok"} :
             (id = cvCurrentConvId /\ loadConversationSettle(id, out))
             => ~ShowsOther(cvMessages', id)
        /\ \A out \in LoadOutcomes \ {"ok"} :
             cpLoadSettle(out) => ~ShowsOther(cpMessages', cpReq.conv)
      ]_vars


\* C24: the step that selects no conversation leaves the chat view ready,
\* not loading, with an empty list (ChatView) or the welcome message alone
\* (ChatPage), with no conversation id, and issues no request
C24_NewChatIsReady ==
    [][ /\ createConversation =>
             /\ cvMessages' = <<>>
             /\ cvCurrentConvId' = NoId
             /\ ~cvIsLoading'
             /\ netVars' = netVars
        /\ handleNewConversation =>
             /\ cpMessages' = <<WelcomeMsg(uploadedFiles)>>
             /\ cpCurrentConversationId' = NoId
             /\ ~cpLoadingMessages'
             /\ cpReq'.kind = "none"
             /\ fetches' = fetches
      ]_vars


\* what a list view renders: the spinner while loading, the empty-list text
\* when the list has no entry, the entries otherwise
ListState(loading, n) ==
    IF loading THEN "Loading" ELSE IF n = 0 THEN "Empty" ELSE "Populated"

\* C25: when a list fetch has failed (an error, or a body without success),
\* the list view is not left showing the empty-list text
C25_FailedListNotEmpty ==
    [][ /\ \A out \in LoadOutcomes \ {"ok"} :
             /\ csLoadSettle(out) =>
                   ListState(csLoading', Cardinality(csConversations')) # "Empty"
             /\ dmLoadSettle(out) =>
                   ListState(dmLoading', Cardinality(filteredDocuments')) # "Empty"
        /\ \A i \in 1..MaxPending :
             fetchDataSettle(i, "error") =>
                   ListState(isLoading', Len(filtered')) # "Empty"
      ]_vars


\* no list request of the earlier App or of its list components is in flight
ListsSettled ==
    /\ fetches = <<>>
    /\ csReq.kind = "none" /\ dmReq.kind = "none"
    /\ csDeletes = EmptyBag /\ dmDeletes = EmptyBag /\ csRenames = EmptyBag

\* C26: once a delete has succeeded and no response is pending, no view
\* holds the deleted item: neither the component's list nor the list App
\* hands to the sidebar and the header
C26_OneCachePerList ==
    [][ /\ \A d \in BagToSet(dmDeletes) :
             (~d.gone /\ dmDeleteSettle(d, "ok") /\ ListsSettled') =>
                 d.id \notin dmDocuments' \cup documents'
        /\ \A d \in BagToSet(csDeletes) :
             (~d.gone /\ csDeleteSettle(d, "ok") /\ ListsSettled') =>
                 d.id \notin csConversations' \cup conversations'
      ]_vars


\* every view with a handler that awaits a response, one view at a time
InitErrors ==
    /\ mounted \in {{"App", "DocumentsView"}, {"App", "UploadView"},
                    {"App", "SettingsView"},
                    {"LegacyApp", "ChatPage"}, {"LegacyApp", "UploadPage"}}
    /\ InitAll

NextErrors ==
    \/ NextPageChat
    \/ \E id \in 1..MaxDocs, k \in 1..MaxBurst : handleDelete(id, k)
    \/ \E id \in 1..MaxDocs, gone \in BOOLEAN, out \in DeleteOutcomes :
          deleteDocumentSettle([id |-> id, gone |-> gone], out)
    \/ \E id \in 1..MaxDocs, k \in 1..MaxBurst : handleGenerateSummary(id, k)
    \/ \E id \in 1..MaxDocs, gone \in BOOLEAN, out \in PostOutcomes :
          generateSummarySettle([id |-> id, gone |-> gone], out)
    \/ \E id \in 1..MaxDocs, gone \in BOOLEAN : summaryTimer([id |-> id, gone |-> gone])
    \/ \E i \in 1..MaxPending, out \in FetchOutcomes : fetchDataSettle(i, out)
    \/ NextUpload
    \/ NextSettings

SpecErrors == InitErrors /\ [][NextErrors]_vars


\* C27: the continuation of a request that failed (no response, an error
\* status, a cancellation) clears the in-flight flag of its handler and shows
\* the error where the view has a place for it
C27_FailureClearsFlag ==
    [][ /\ \A i \in 1..MaxPending : fetchDataSettle(i, "error") => ~isLoading'
        /\ \A d \in BagToSet(docDeletes) :
             (~d.gone /\ deleteDocumentSettle(d, "error")) => deletingId' = NoId
        /\ \A p \in BagToSet(genPosts) :
             (~p.gone /\ generateSummarySettle(p, "error")) => generatingId' = NoId
        /\ \A u \in uploads, out \in {"notok", "error"} :
             /\ uploadFilesSettle(u, out) =>
                   ~uploadView'.uploading /\ uploadView'.result # "null"
             /\ handleUploadSettle(u, out) =>
                   ~uploadPage'.uploading /\ uploadPage'.message.type = "error"
        /\ fetchSettingsSettle("error") =>
             ~settingsView'.loading /\ settingsView'.message = "error"
        /\ \A out \in {"notok", "error"} :
             handleSaveSettle(out) =>
                ~settingsView'.saving /\ settingsView'.message = "error"
        /\ cpLoadSettle("error") => ~cpLoadingMessages'
        /\ \A out \in CpChatOutcomes \ {"ok"} : cpSendSettle(out) => ~cpLoading'
        /\ (cpReq.kind = "load" /\ handleNewConversation) => ~cpLoadingMessages'
        /\ (cpReq.kind = "chat" /\ handleNewConversation) => ~cpLoading'
      ]_vars


C27_Witness ==
    /\ "SettingsView" \in mounted
    /\ settingsView.message = "error"
    /\ ~settingsView.loading /\ ~settingsView.saving
    /\ settingsView.gets = 0 /\ settingsView.puts = 0


\* C28: the response to a send issued in another conversation than the one
\* now displayed (the user has switched, or started a new chat) adds nothing
\* to the displayed message list
C28_ReplyStaysInItsConversation ==
    [][ /\ \A conv \in 0..MaxConvs, out \in ChatOutcomes :
             (conv # cvCurrentConvId /\ sendMessageSettle(conv, out)) =>
                 cvMessages' = cvMessages
        /\ \A out \in CpChatOutcomes :
             (cpReq.conv # cpCurrentConversationId /\ cpSendSettle(out)) =>
                 cpMessages' = cpMessages
      ]_vars


\* C29: the response to a send issued from a new chat changes neither the
\* session's conversation id nor the application's active conversation when
\* the session has a conversation id by the time the response arrives
C29_AdoptsIdOnlyWhenNone ==
    [][ /\ \A out \in ChatOutcomes :
             (cvCurrentConvId # NoId /\ sendMessageSettle(NoId, out)) =>
                 /\ cvCurrentConvId' = cvCurrentConvId
                 /\ activeConversationId' = activeConversationId
        /\ \A out \in CpChatOutcomes :
             (cpReq.conv = NoId /\ cpCurrentConversationId # NoId /\ cpSendSettle(out)) =>
                 /\ cpCurrentConversationId' = cpCurrentConversationId
                 /\ currentConversationId' = currentConversationId
      ]_vars


\* the ids a step puts back into a list although the backend has deleted them
Restored(before, after, stored) == (after \ before) \ stored

\* C30: the completion of a delete or of a rename puts no id back into the
\* component's list that the backend has deleted and the list had dropped
C30_DeletedStaysGone ==
    [][ /\ \A d \in BagToSet(csDeletes), out \in AxiosOutcomes :
             csDeleteSettle(d, out) =>
                 Restored(csConversations, csConversations', srvConvs') = {}
        /\ \A r \in BagToSet(csRenames), out \in AxiosOutcomes :
             csRenameSettle(r, out) =>
                 Restored(csConversations, csConversations', srvConvs') = {}
        /\ \A d \in BagToSet(dmDeletes), out \in AxiosOutcomes :
             dmDeleteSettle(d, out) =>
                 Restored(dmDocuments, dmDocuments', srvDocs') = {}
      ]_vars


\* no request of the new App is awaiting its response
AppSettled ==
    /\ fetches = <<>>
    /\ loads = EmptyBag /\ chats = EmptyBag
    /\ docDeletes = EmptyBag /\ convDeletes = EmptyBag

\* C31: with no request pending, the active conversation is none or a
\* conversation the backend still has
C31_ActiveNotDeleted ==
    AppSettled => activeConversationId \in {NoId} \cup srvConvs


\* C32: with no request pending, the counters of stats are the sizes of the
\* cached lists and are not negative
C32_StatsMatchCaches ==
    AppSettled =>
        /\ stats.documents = Cardinality(documents)
        /\ stats.conversations = Cardinality(conversations)
        /\ stats.documents >= 0 /\ stats.conversations >= 0


\* a load of ChatPage, of ChatView, of App is awaiting its response
CpLoadPending == cpReq.kind = "load"
CvLoadPending == "ChatView" \in mounted /\ loads # EmptyBag
AppLoadPending == \E i \in DOMAIN fetches : fetches[i].kind = "all"

\* C33: while a load of a scope is in flight, the loading flag of the scope
\* is true
C33_LoadingWhilePending ==
    /\ CpLoadPending => cpLoadingMessages
    /\ CvLoadPending => cvIsLoading
    /\ AppLoadPending => isLoading


\* C34: in ChatPage an accepted send leaves a pending conversation load
\* pending, and a change of the number of uploaded files leaves a pending
\* send pending and the message list as it is
C34_AbortOnlyOnConversationChange ==
    [][ /\ \A k \in 1..MaxBurst :
             (CpLoadPending /\ handleSend(k) /\ cpLoading') => CpLoadPending'
        /\ handleUploadSuccess =>
             /\ cpMessages' = cpMessages
             /\ cpReq.kind = "chat" => cpReq' = cpReq
      ]_vars


\* every chat request in flight is eventually answered, fails or is cancelled
TalkFairness ==
    /\ WF_vars(\E conv \in 0..MaxConvs, out \in ChatOutcomes :
                   sendMessageSettle(conv, out))
    /\ WF_vars(\E out \in CpChatOutcomes : cpSendSettle(out))

\* the steps that set, hold or release a sending flag
NextLock ==
    \/ \E id \in 1..MaxConvs : handleConversationSelect(id)
    \/ \E t \in Texts : handleInput(t)
    \/ \E k \in 1..MaxBurst : sendMessage(k)
    \/ \E conv \in 0..MaxConvs, out \in ChatOutcomes : sendMessageSettle(conv, out)
    \/ \E t \in Texts : cpSetInput(t)
    \/ \E k \in 1..MaxBurst : handleSend(k)
    \/ \E out \in LoadOutcomes : cpLoadSettle(out)
    \/ \E out \in CpChatOutcomes : cpSendSettle(out)

SpecLock == (InitApp \/ InitLegacy) /\ [][NextLock]_vars /\ TalkFairness

\* C35: a sending flag that is set (ChatView.isSending, ChatPage.loading) is
\* eventually false again, whatever the outcome of the chat request
C35_SendLockReleased ==
    /\ cvIsSending ~> ~cvIsSending
    /\ cpLoading ~> ~cpLoading


\* a question was sent in ChatPage, its request is over and the flag is false
C35_Witness ==
    /\ "ChatPage" \in mounted
    /\ ~cpLoading /\ cpReq = NoReq
    /\ \E i \in DOMAIN cpMessages : cpMessages[i].role = "user"


\* ------------------------------------------------------------ bulk delete
AlertDeleteDocuments == "Failed to delete some documents. Please try again."

\* the batch of a bulk delete in flight: one DELETE per id of ids, awaited
\* together; seen and sel are the documents and selectedDocs of its render
BulkDelete(ids, seen) ==
    [id |-> NoId, ids |-> ids, seen |-> seen, sel |-> ids, gone |-> FALSE]

BulkDeletes == {d \in BagToSet(dmDeletes) : d.id = NoId}
SingleDeletes == {d \in BagToSet(dmDeletes) : d.id # NoId}

\* the "Delete n" button of DocumentManager (rendered while documents are
\* selected, disabled while deleting): handleBulkDelete up to the await
handleBulkDelete(confirmed) ==
    /\ "DocumentManager" \in mounted
    /\ ~dmLoading
    /\ ~dmDeleting
    /\ dmSelectedDocs # {}
    /\ BagCardinality(dmDeletes) < MaxPending
    /\ IF confirmed
       THEN /\ dmDeleting' = TRUE
            /\ dmDeletes' = dmDeletes (+)
                   SetToBag({BulkDelete(dmSelectedDocs, dmDocuments)})
            /\ confirms' = confirms \cup {<<"documents", Cardinality(dmSelectedDocs)>>}
            /\ UNCHANGED <<mounted, srvVars, dmVars, lateUpdates, alerts, offManager>>
       ELSE UNCHANGED vars

\* every DELETE of batch d has its response, outs[id] for document id: the
\* continuation of handleBulkDelete after Promise.all
handleBulkDeleteSettle(d, outs) ==
    /\ BagIn(d, dmDeletes)
    /\ d.id = NoId
    /\ \A id \in d.ids : Done(outs[id]) => id \in srvDocs
    /\ dmDeletes' = dmDeletes (-) SetToBag({d})
    /\ srvDocs' = srvDocs \ {id \in d.ids : Done(outs[id])}
    /\ LET rejected == \E id \in d.ids : Rejected(outs[id])
       IN  /\ IF ~rejected /\ ~d.gone
              THEN /\ dmDocuments' = d.seen \ d.sel
                   /\ dmSelectedDocs' = {}
              ELSE UNCHANGED <<dmDocuments, dmSelectedDocs>>
           /\ alerts' = IF rejected THEN alerts \cup {AlertDeleteDocuments}
                        ELSE alerts
    /\ dmDeleting' = IF d.gone THEN dmDeleting ELSE FALSE
    /\ lateUpdates' = IF d.gone THEN lateUpdates \cup {"DocumentManager.setDeleting"}
                      ELSE lateUpdates
    /\ UNCHANGED <<mounted, srvConvs, dmLoading, dmReq, confirms, offManager>>

\* DocumentManager is shown with its list loaded; the backend holds MaxDocs
\* documents
InitBulk ==
    /\ mounted = {"LegacyApp", "DocumentManager"}
    /\ InitAppState /\ InitChatView /\ InitLegacyState /\ InitChatPage
    /\ InitDocumentsView /\ InitExt
    /\ settingsView = SvUnmounted
    /\ srvDocs = 1..MaxDocs
    /\ srvConvs = {1, 2}
    /\ documents = srvDocs
    /\ conversations = {1, 2}
    /\ fetches = <<>>
    /\ csConversations = {}
    /\ csLoading = TRUE
    /\ csEditingId = NoId
    /\ csReq = NoReq
    /\ csDeletes = EmptyBag
    /\ dmDocuments = srvDocs
    /\ dmLoading = FALSE
    /\ dmSelectedDocs = {}
    /\ dmReq = NoReq
    /\ lateUpdates = {}
    /\ docInfo = [d \in 1..MaxDocs |-> CHOOSE r \in DocSamples : r.file_type = <<Pdf>>]
    /\ filtered = FilteredList(documents, docInfo, search)

NextBulk ==
    \/ \E k \in 1..MaxBurst : loadDocuments(k)
    \/ \E out \in LoadOutcomes : dmLoadSettle(out)
    \/ \E id \in 1..MaxDocs : toggleSelect(id)
    \/ \E id \in 1..MaxDocs, confirmed \in BOOLEAN, k \in 1..MaxBurst :
          dmHandleDelete(id, confirmed, k)
    \/ \E d \in SingleDeletes, out \in AxiosOutcomes : dmDeleteSettle(d, out)
    \/ \E confirmed \in BOOLEAN : handleBulkDelete(confirmed)
    \/ \E d \in BulkDeletes : \E outs \in [d.ids -> AxiosOutcomes] :
          handleBulkDeleteSettle(d, outs)

SpecBulk == InitBulk /\ [][NextBulk]_vars

\* C36: when a bulk delete of a mounted DocumentManager settles, every
\* document of the batch whose DELETE the server confirmed is neither in the
\* cached list nor in the selection
C36_ConfirmedDeletesLeaveCache ==
    [][ \A d \in BulkDeletes : \A outs \in [d.ids -> AxiosOutcomes] :
          (handleBulkDeleteSettle(d, outs) /\ ~d.gone) =>
             \A id \in d.ids :
                Done(outs[id]) => id \notin dmDocuments' \cup dmSelectedDocs'
      ]_vars


\* a response that reports at least one uploaded file
Uploaded(out) == out \in {"ok", "partly"}

\* C37: a response of POST /api/upload that reports an uploaded file sets the
\* timer that notifies the parent, and the timer's step notifies it:
\* UploadPage by onUploadSuccess (the file count grows, the documents are
\* fetched), UploadView by onComplete (fetchData)
C37_UploadNotifiesParent ==
    [][ /\ \A u \in uploads, out \in UploadOutcomes :
             /\ (handleUploadSettle(u, out) /\ Uploaded(out)) => uploadPage'.clearing
             /\ (uploadFilesSettle(u, out) /\ Uploaded(out)) => uploadView'.completing
        /\ \A found \in BOOLEAN :
             clearFilesTimer(found) =>
                 uploadedFiles' > uploadedFiles /\ Len(fetches') > Len(fetches)
        /\ onCompleteTimer => Len(fetches') > Len(fetches)
      ]_vars


\* ------------------------------------------------------------ settings form
InitSettings == mounted = {"App", "SettingsView"} /\ InitAll

NextForm ==
    \/ NextSettings
    \/ \E f \in KeyFields, text \in KeyTexts : setKey(f, text)
    \/ \E view \in {"documents", "settings"} : onViewChange(view)
    \/ lostSaveSettle

SpecSettings == InitSettings /\ [][NextForm]_vars

\* C38: a save sends null for a key field whose input begins with '*' and the
\* input's text otherwise, never the masked value, and no more than one PUT
\* /api/settings is in flight
C38_SaveBodyAndSingleSave ==
    [][ /\ handleSave =>
             \A f \in KeyFields :
                /\ settingsView'.body[f] =
                      IF settingsView.keys[f] # <<>> /\ settingsView.keys[f][1] = "*"
                      THEN Null ELSE settingsView.keys[f]
                /\ settingsView'.body[f] # Masked
        /\ settingsView'.puts + settingsView'.lost <= 1
      ]_vars

====
